---- MODULE Spec2Model ----
(***************************************************************************)
(* A model of the self_update crate: the rename-based replace protocol     *)
(* (Move::to_dest), the update transaction (update / update_extended of    *)
(* the GitHub backend and of the ReleaseUpdate trait), asset selection,    *)
(* the confirmation prompt and the paginated release listing.              *)
(***************************************************************************)
EXTENDS Integers, Sequences, FiniteSets, TLC

VARIABLES
    printed,   \* what update() printed about the compatibility of the new release
    dl,        \* Download::download_to in progress: position, response, sink, progress, return value
    ex,        \* Extract::extract_file in progress: position, files written, return value
    fs,        \* the files the transaction touches: path -> content
    mv,        \* Move::to_dest in progress: position, temp option, saved error, return value
    renames,   \* every fs::rename call made so far: <<from, to, succeeded>>
    cfg,       \* the built Update: the fields of the struct / the trait's accessors
    served,    \* the release the backend answers with, and who signed its artifact
    stdin,     \* the line the user types when prompted
    dest0,     \* what the install path held when update() was called
    pc,        \* position of update_extended
    release,   \* the local `release`
    asset,     \* the local `target_asset`
    result,    \* what update() returned (or the panic that ended it)
    steps,     \* the steps of the transaction started so far, in order
    reads,     \* number of read_line calls on standard input
    tmpdir,    \* the TempDir: "none", "live", "removed"
    net,       \* the requests sent so far, in order
    pages,     \* the release listing the backend serves, page by page
    call,      \* ReleaseList::fetch in progress: the frames of fetch_releases
    s3,        \* fetch_releases_from_s3 in progress: position, current_release, releases
    builder    \* the UpdateBuilder: its backend and its Option fields

mvars == <<fs, mv, renames>>
inputs == <<cfg, served, stdin, dest0, builder>>
iovars == <<dl, ex, printed>>
lvars == <<pages, call, s3>>
uvars == <<inputs, iovars, lvars, pc, release, asset, result, steps, reads, tmpdir, net>>
vars == <<mvars, uvars>>

None == "None"

(***************************************************************************)
(* The file system.  A path holds one whole content or is absent.          *)
(* "partial" is the content of a file whose writer stopped half way.       *)
(***************************************************************************)
Paths == {"dest", "temp", "source", "archive", "exe"}
Absent == "absent"
Contents == {"old", "new", "stale", "partial"}

\* an exists() that answers yes for every path
exists_always(f, p) == TRUE

exists(f, p) == f[p] # Absent

\* Errors are values: the kind of errors::Error and the operation that raised it.
NoneR == [tag |-> "None"]
Err(kind, op) == [tag |-> "Err", kind |-> kind, op |-> op]
IoErr(op) == Err("Io", op)
Ok(v) == [tag |-> "Ok", v |-> v]
IsErr(r) == r.tag = "Err"
IsOk(r) == r.tag = "Ok"

\* std::fs::rename(from, to): atomic; it fails when `from` is absent and may
\* fail for any other reason (permissions, busy target); a failed rename
\* changes nothing, a successful one replaces `to`.
\* a rename that unlinks `from` without the content arriving at `to`
rename_loses(f, from, to) == [f EXCEPT ![from] = Absent]

rename_ok(f, from, to) == [f EXCEPT ![to] = f[from], ![from] = Absent]
RenameOp(from, to) == "rename " \o from \o "->" \o to

(***************************************************************************)
(* Move::to_dest (lib.rs 517-535), one action per fs::rename call.          *)
(***************************************************************************)
\* d0 and s0 remember what dest and source held when to_dest was called.
MoveIdle == [pc |-> "idle", temp |-> None, e |-> NoneR, ret |-> NoneR,
             d0 |-> Absent, s0 |-> Absent]
MoveCall(temp) == [pc |-> "start", temp |-> temp, e |-> NoneR, ret |-> NoneR,
                   d0 |-> fs["dest"], s0 |-> fs["source"]]

MoveReturn(r) == [mv EXCEPT !.pc = "ret", !.ret = r]

\* The rename `from -> to` with both outcomes; `onOk` and `onErr` give mv'.
DoRename(from, to, onOk, onErr) ==
    /\ \/ /\ exists(fs, from)
          /\ fs' = rename_ok(fs, from, to)
          /\ renames' = Append(renames, <<from, to, TRUE>>)
          /\ mv' = onOk
       \/ /\ fs' = fs
          /\ renames' = Append(renames, <<from, to, FALSE>>)
          /\ mv' = onErr
    /\ UNCHANGED uvars

\* temp = None: fs::rename(self.source, dest)?
MoveNoTemp ==
    /\ mv.pc = "start"
    /\ mv.temp = None
    /\ DoRename("source", "dest", MoveReturn(Ok("unit")),
                MoveReturn(IoErr(RenameOp("source", "dest"))))

\* Some(temp), dest.exists(): fs::rename(dest, temp)?
MoveDestToTemp ==
    /\ mv.pc = "start"
    /\ mv.temp # None
    /\ exists(fs, "dest")
    /\ DoRename("dest", mv.temp, [mv EXCEPT !.pc = "s2d"],
                MoveReturn(IoErr(RenameOp("dest", mv.temp))))

\* if let Err(e) = fs::rename(self.source, dest) { ... }
MoveSourceToDest ==
    /\ mv.pc = "s2d"
    /\ DoRename("source", "dest", MoveReturn(Ok("unit")),
                [mv EXCEPT !.pc = "restore", !.e = IoErr(RenameOp("source", "dest"))])

\* fs::rename(temp, dest)?; return Err(Error::from(e));
MoveRestore ==
    /\ mv.pc = "restore"
    /\ DoRename(mv.temp, "dest", MoveReturn(mv.e),
                MoveReturn(IoErr(RenameOp(mv.temp, "dest"))))

\* Some(temp), dest absent: fs::rename(self.source, dest)?
MoveFresh ==
    /\ mv.pc = "start"
    /\ mv.temp # None
    /\ ~exists(fs, "dest")
    /\ DoRename("source", "dest", MoveReturn(Ok("unit")),
                MoveReturn(IoErr(RenameOp("source", "dest"))))

\* Move::from_source, then optionally replace_using_temp (lib.rs 498-514), then
\* to_dest: the builder calls of a caller of the public API.
from_source == [pc |-> "built", temp |-> None, e |-> NoneR, ret |-> NoneR,
                d0 |-> Absent, s0 |-> Absent]

MoveReplaceUsingTemp ==
    /\ mv.pc = "built"
    /\ mv.temp = None
    /\ mv' = [mv EXCEPT !.temp = "temp"]
    /\ UNCHANGED <<fs, renames, uvars>>

MoveToDest ==
    /\ mv.pc = "built"
    /\ mv' = MoveCall(mv.temp)
    /\ UNCHANGED <<fs, renames, uvars>>

(***************************************************************************)
(* Values: options, versions, names.                                       *)
(***************************************************************************)
Some(v) == [tag |-> "Some", v |-> v]
Panic(msg) == [tag |-> "Panic", msg |-> msg]

\* A version string: either it parses as semver major.minor.patch or it does not.
Ver(a, b, c) == [parses |-> TRUE, num |-> <<a, b, c>>]
BadVersion == [parses |-> FALSE, num |-> <<>>]

\* an ordering that looks at the major number only
VerGT_major(x, y) == x[1] > y[1]

\* semver's ordering of parsed versions
VerGT(x, y) ==
    \/ x[1] > y[1]
    \/ x[1] = y[1] /\ x[2] > y[2]
    \/ x[1] = y[1] /\ x[2] = y[2] /\ x[3] > y[3]

\* the comparison with >= in place of >
should_update_nonstrict(current, latest) ==
    IF ~latest.parses THEN Err("SemVer", "parse latest")
    ELSE IF ~current.parses THEN Err("SemVer", "parse current")
    ELSE Ok(latest.num = current.num \/ VerGT(latest.num, current.num))

\* should_update (lib.rs 158-161): Version::parse(latest)? > Version::parse(current)?
should_update(current, latest) ==
    IF ~latest.parses THEN Err("SemVer", "parse latest")
    ELSE IF ~current.parses THEN Err("SemVer", "parse current")
    ELSE Ok(VerGT(latest.num, current.num))

\* version::bump_is_greater, the comparison update_extended calls
bump_is_greater(current, latest) == should_update(current, latest)

\* str::contains: t occurs in s as a contiguous run of characters
Contains(s, t) == \E i \in 0..(Len(s) - Len(t)) : SubSeq(s, i + 1, i + Len(t)) = t

(***************************************************************************)
(* Release::asset_for (update.rs 60-72): iter().find(..).cloned()           *)
(***************************************************************************)
asset_matches(a, target, identifier) ==
    /\ Contains(a.name, target)
    /\ IF identifier.tag = "Some" THEN Contains(a.name, identifier.v) ELSE TRUE

\* the search keeping the last match instead of stopping at the first
RECURSIVE find_asset_last(_, _, _, _)
find_asset_last(assets, i, target, identifier) ==
    IF i > Len(assets) THEN NoneR
    ELSE LET rest == find_asset_last(assets, i + 1, target, identifier) IN
         IF rest.tag = "Some" THEN rest
         ELSE IF asset_matches(assets[i], target, identifier) THEN Some(assets[i])
         ELSE NoneR

RECURSIVE find_asset(_, _, _, _)
find_asset(assets, i, target, identifier) ==
    IF i > Len(assets) THEN NoneR
    ELSE IF asset_matches(assets[i], target, identifier) THEN Some(assets[i])
    ELSE find_asset(assets, i + 1, target, identifier)

asset_for(rel, target, identifier) == find_asset(rel.assets, 1, target, identifier)

(***************************************************************************)
(* confirm (lib.rs 169-179) on the line read: s.trim().to_lowercase()       *)
(***************************************************************************)
IsSpace(c) == c = " "

RECURSIVE trim_start(_)
trim_start(s) ==
    IF s = <<>> THEN s
    ELSE IF IsSpace(Head(s)) THEN trim_start(Tail(s)) ELSE s

RECURSIVE trim_end(_)
trim_end(s) ==
    IF s = <<>> THEN s
    ELSE IF IsSpace(s[Len(s)]) THEN trim_end(SubSeq(s, 1, Len(s) - 1)) ELSE s

trim(s) == trim_end(trim_start(s))

lower(c) == IF c = "Y" THEN "y" ELSE IF c = "E" THEN "e" ELSE IF c = "S" THEN "s"
            ELSE IF c = "N" THEN "n" ELSE c
to_lowercase(s) == [i \in 1..Len(s) |-> lower(s[i])]

\* the check with "yes" accepted as well
confirm_accepts_yes(line) ==
    LET s == to_lowercase(trim(line)) IN ~(s # <<>> /\ s # <<"y">> /\ s # <<"y", "e", "s">>)

\* if !s.is_empty() && s != "y" { bail!(Error::Update, "Update aborted") }
confirm_accepts(line) ==
    LET s == to_lowercase(trim(line)) IN ~(s # <<>> /\ s # <<"y">>)

confirm(line) == IF confirm_accepts(line) THEN Ok("unit") ELSE Err("Update", "confirm")

(***************************************************************************)
(* Signature check of update_extended (update.rs 246-270): the keys in      *)
(* order; a key that is not a valid key panics when the loop reaches it.    *)
(***************************************************************************)
RECURSIVE verify_keys(_, _, _)
verify_keys(keys, i, signer) ==
    IF i > Len(keys) THEN "invalid"
    ELSE IF ~keys[i].valid THEN "panic"
    ELSE IF keys[i].id = signer THEN "valid"
    ELSE verify_keys(keys, i + 1, signer)

(***************************************************************************)
(* UpdateStatus::into_status (update.rs 24-29)                              *)
(***************************************************************************)
UpToDate == [st |-> "UpToDate"]
Updated(rel) == [st |-> "Updated", release |-> rel]

into_status(s, current_version) ==
    IF s.st = "UpToDate" THEN [status |-> "UpToDate", version |-> current_version]
    ELSE [status |-> "Updated", version |-> s.release.version]

(***************************************************************************)
(* update() / update_extended(): update.rs 145-280 (cfg.impl = "trait") and *)
(* backends/github.rs 531-623 (cfg.impl = "github").  Printing is left out. *)
(***************************************************************************)
TmpPaths == {"archive", "source", "temp"}

\* a drop that removes the downloaded files and leaves the parked backup
drop_tmp_keeps_backup(f) == [p \in Paths |-> IF p \in {"archive", "source"} THEN Absent ELSE f[p]]

\* TempDir's drop: the directory and everything in it go away
drop_tmp(f) == [p \in Paths |-> IF p \in TmpPaths THEN Absent ELSE f[p]]

\* the path self_replace writes: the running executable
SelfPath == IF cfg.install_is_exe THEN "dest" ELSE "exe"

\* return r before the TempDir exists
Return(r) ==
    /\ pc' = "done"
    /\ result' = r

\* return r with the TempDir in scope: it is dropped
ReturnDrop(r, f) ==
    /\ pc' = "done"
    /\ result' = r
    /\ tmpdir' = "removed"
    /\ fs' = drop_tmp(f)

\* a panic unwinds (the TempDir is dropped) or aborts (it stays), as built
PanicWithTmp(msg) ==
    /\ pc' = "done"
    /\ result' = Panic(msg)
    /\ \/ tmpdir' = "removed" /\ fs' = drop_tmp(fs)
       \/ UNCHANGED <<tmpdir, fs>>

BackendErrKinds == {"Reqwest", "Network", "Json", "Release"}

\* a comparison that refuses an incompatible bump
bump_is_compatible_or_error(current, latest) ==
    IF ~current.parses \/ ~latest.parses THEN Err("SemVer", "parse")
    ELSE IF latest.num[1] = current.num[1] /\ (current.num[1] = 0 => latest.num[2] = current.num[2])
         THEN Ok(TRUE) ELSE Err("Update", "incompatible")

\* version::bump_is_compatible: same major, or same major.minor when major is 0
bump_is_compatible(current, latest) ==
    IF ~current.parses \/ ~latest.parses THEN Err("SemVer", "parse")
    ELSE Ok(/\ latest.num[1] = current.num[1]
            /\ current.num[1] = 0 => latest.num[2] = current.num[2])

\* update.rs 183-192, github.rs 561-567: the word put into "New release is {}compatible"
qualifier(current, latest) ==
    LET c == bump_is_compatible(current, latest) IN
    IF IsOk(c) /\ c.v THEN "" ELSE "*NOT* "

\* update.rs 165-200, github.rs 545-575 for a current version cur, the printing left aside
\* an update that compares versions whether or not a tag is asked for
target_version_is_none_always(target_version) == TRUE

\* update.rs 165-166, 196: match self.target_version() { None => .., Some(ver) => .. }
target_version_is_none(target_version) == target_version = None

ResolveCore(cur) ==
    /\ pc = "resolve"
    /\ steps' = Append(steps, "resolve")
    /\ net' = Append(net, IF cfg.target_version = None THEN "latest" ELSE "tag")
    /\ \/ \E k \in BackendErrKinds :
             /\ Return(Err(k, IF cfg.target_version = None THEN "get_latest_release"
                                                           ELSE "get_release_version"))
             /\ UNCHANGED release
       \/ /\ target_version_is_none(cfg.target_version)
          /\ LET g == bump_is_greater(cur, served.version)
                 c == bump_is_compatible(cur, served.version) IN
                IF IsErr(g) THEN Return(g) /\ UNCHANGED release
                ELSE IF ~g.v
                     THEN Return(Ok(into_status(UpToDate, cur)))
                          /\ UNCHANGED release
                     ELSE IF IsErr(c) THEN Return(c) /\ UNCHANGED release
                     ELSE pc' = "select" /\ release' = Some(served) /\ UNCHANGED result
       \/ /\ ~target_version_is_none(cfg.target_version)
          /\ pc' = "select"
          /\ release' = Some(served)
          /\ UNCHANGED result
    /\ UNCHANGED <<mvars, inputs, dl, ex, lvars, asset, reads, tmpdir>>

\* update.rs 165-200, github.rs 545-575
Resolve ==
    /\ ResolveCore(cfg.current_version)
    /\ printed' = IF cfg.target_version = None /\ pc' = "select"
                  THEN Append(printed, qualifier(cfg.current_version, served.version))
                  ELSE printed

\* update.rs 202-206, github.rs 577-583
Select ==
    /\ pc = "select"
    /\ steps' = Append(steps, "select")
    /\ LET a == asset_for(release.v, cfg.target, cfg.identifier) IN
          IF a.tag = "None"
          THEN Return(Err("Release", "asset_for")) /\ UNCHANGED asset
          ELSE pc' = "confirm" /\ asset' = a /\ UNCHANGED result
    /\ UNCHANGED <<mvars, inputs, iovars, lvars, release, reads, tmpdir, net>>

\* update.rs 208-218, github.rs 585-594
Confirm ==
    /\ pc = "confirm"
    /\ IF cfg.no_confirm
       THEN pc' = "download" /\ UNCHANGED <<result, steps, reads>>
       ELSE /\ steps' = Append(steps, "confirm")
            /\ reads' = reads + 1
            /\ \/ Return(IoErr("read_line"))
               \/ LET c == confirm(stdin) IN
                     IF IsErr(c) THEN Return(c)
                     ELSE pc' = "download" /\ UNCHANGED result
    /\ UNCHANGED <<mvars, inputs, iovars, lvars, release, asset, tmpdir, net>>

\* update.rs 220-234, github.rs 596-608: TempDir, File::create, download_to
Download ==
    /\ pc = "download"
    /\ steps' = Append(steps, "download")
    /\ \/ /\ cfg.impl = "github"
          /\ ~cfg.has_parent
          /\ Return(Panic("Failed to determine parent dir of bin_install_path"))
          /\ UNCHANGED <<fs, tmpdir, net>>
       \/ /\ cfg.impl = "github" => cfg.has_parent
          /\ \/ /\ Return(IoErr("TempDir::new"))
                /\ UNCHANGED <<fs, tmpdir, net>>
             \/ /\ ReturnDrop(IoErr("File::create"), fs)
                /\ UNCHANGED net
             \/ /\ \E k \in {"Reqwest", "Update", "Io"} :
                      ReturnDrop(Err(k, "download_to"), [fs EXCEPT !["archive"] = "partial"])
                /\ net' = Append(net, "download")
             \/ /\ pc' = "extract"
                /\ tmpdir' = "live"
                /\ fs' = [fs EXCEPT !["archive"] = "new"]
                /\ net' = Append(net, "download")
                /\ UNCHANGED result
    /\ UNCHANGED <<mv, renames, inputs, iovars, lvars, release, asset, reads>>

\* update.rs 236-240, github.rs 610-614: Extract::extract_file into the TempDir
Extract ==
    /\ pc = "extract"
    /\ steps' = Append(steps, "extract")
    /\ \/ /\ \E k \in {"Io", "Update", "Zip", "ArchiveNotEnabled"}, c \in {Absent, "partial"} :
                ReturnDrop(Err(k, "extract_file"), [fs EXCEPT !["source"] = c])
       \/ /\ pc' = IF cfg.impl = "trait" THEN "verify" ELSE "replace"
          /\ fs' = [fs EXCEPT !["source"] = "new"]
          /\ UNCHANGED <<result, tmpdir>>
    /\ UNCHANGED <<mv, renames, inputs, iovars, lvars, release, asset, reads, net>>

\* update.rs 242-271
Verify ==
    /\ pc = "verify"
    /\ IF cfg.keys = <<>>
       THEN pc' = "replace" /\ UNCHANGED <<result, steps, tmpdir, fs>>
       ELSE /\ steps' = Append(steps, "verify")
            /\ \/ \E op \in {"read signature", "open exe"} : ReturnDrop(IoErr(op), fs)
               \/ LET v == verify_keys(cfg.keys, 1, served.signer) IN
                     CASE v = "panic" -> PanicWithTmp("Key is invalid")
                       [] v = "invalid" -> ReturnDrop(Err("NoValidSignature", "verify"), fs)
                       [] OTHER -> pc' = "replace" /\ UNCHANGED <<result, tmpdir, fs>>
    /\ UNCHANGED <<mv, renames, inputs, iovars, lvars, release, asset, reads, net>>

\* update.rs 275-279: self_replace::self_replace(new_exe)?
ReplaceSelf ==
    /\ pc = "replace"
    /\ cfg.impl = "trait"
    /\ steps' = Append(steps, "replace")
    /\ \/ ReturnDrop(IoErr("self_replace"), fs)
       \/ ReturnDrop(Ok(into_status(Updated(release.v), cfg.current_version)),
                     [fs EXCEPT ![SelfPath] = fs["source"]])
    /\ UNCHANGED <<mv, renames, inputs, iovars, lvars, release, asset, reads, net>>

\* github.rs 616-620: Move from new_exe, replace_using_temp(tmp_file), to_dest(bin_install_path)
ReplaceMove ==
    /\ pc = "replace"
    /\ cfg.impl = "github"
    /\ steps' = Append(steps, "replace")
    /\ pc' = "replacing"
    /\ mv' = MoveCall("temp")
    /\ UNCHANGED <<fs, renames, inputs, iovars, lvars, release, asset, result, reads, tmpdir, net>>

\* github.rs 620-622: the `?` on to_dest, then Ok(Updated(release))
ReplaceReturn ==
    /\ pc = "replacing"
    /\ mv.pc = "ret"
    /\ IF IsErr(mv.ret)
       THEN ReturnDrop(mv.ret, fs)
       ELSE ReturnDrop(Ok(into_status(Updated(release.v), cfg.current_version)), fs)
    /\ UNCHANGED <<mv, renames, inputs, iovars, lvars, release, asset, steps, reads, net>>

\* no download in progress
DlIdle == [pc |-> "idle", status |-> 0, sink |-> <<>>, i |-> 0, downloaded |-> 0, bar |-> FALSE, ret |-> NoneR]

\* no extraction in progress
ExIdle == [pc |-> "idle", op |-> "none", kind |-> NoneR, written |-> {}, ret |-> NoneR]

\* no builder in use
NoBuilder == [backend |-> "none", f |-> <<>>, path_given |-> FALSE]

\* no S3 listing in progress
S3Idle == [pc |-> "idle", i |-> 0, current |-> NoneR, releases |-> <<>>, ret |-> NoneR]

\* no listing in progress
CallIdle == [pc |-> "idle", url |-> 0, frames |-> <<>>, ret |-> NoneR]

(***************************************************************************)
(* The inputs of the update transaction.                                   *)
(***************************************************************************)
Chars == {"a", "b"}
Target0 == <<"a">>

Asset(name, url) == [name |-> name, download_url |-> url]
\* the asset list of a release: names in order, each with its own url
Assets(names) == [i \in 1..Len(names) |-> Asset(names[i], i)]

Key(id, valid) == [id |-> id, valid |-> valid]
KeyLists == {<<>>, <<Key(1, TRUE)>>, <<Key(2, TRUE)>>, <<Key(0, FALSE)>>,
             <<Key(2, TRUE), Key(1, TRUE)>>, <<Key(2, TRUE), Key(0, FALSE)>>,
             <<Key(1, TRUE), Key(0, FALSE)>>}

SomeVersions == {Ver(0, 1, 0), Ver(1, 0, 0), Ver(1, 1, 0), BadVersion}
SomeNameLists == {<<>>, <<<<"b">>>>, <<<<"b">>, <<"a", "b">>, <<"b", "a">>>>}
SomeLines == {<<>>, <<"y">>, <<"Y", " ">>, <<"y", "e", "s">>, <<"n">>}

GithubCfgs ==
    [impl : {"github"}, target_version : {None, "tag"}, current_version : {Ver(1, 0, 0), BadVersion},
     target : {Target0}, identifier : {NoneR}, no_confirm : BOOLEAN, has_parent : BOOLEAN,
     keys : {<<>>}, install_is_exe : {TRUE}]

TraitCfgs ==
    [impl : {"trait"}, target_version : {None, "tag"}, current_version : {Ver(1, 0, 0), BadVersion},
     target : {Target0}, identifier : {NoneR, Some(<<"b">>)}, no_confirm : BOOLEAN,
     has_parent : {TRUE}, keys : KeyLists, install_is_exe : BOOLEAN]

UpdateInit(cfgs, rels, lines) ==
    /\ cfg \in cfgs
    /\ served \in rels
    /\ stdin \in (IF cfg.no_confirm THEN {<<>>} ELSE lines)
    /\ fs \in {[p \in Paths |-> CASE p = "dest" -> d
                                  [] p = "exe" -> IF cfg.install_is_exe THEN Absent ELSE "old"
                                  [] OTHER -> Absent] :
               d \in (IF cfg.impl = "github" THEN {"old", Absent} ELSE {"old"})}
    /\ dest0 = fs["dest"]
    /\ mv = MoveIdle
    /\ renames = <<>>
    /\ pc = "resolve"
    /\ release = NoneR
    /\ asset = NoneR
    /\ result = NoneR
    /\ steps = <<>>
    /\ reads = 0
    /\ tmpdir = "none"
    /\ net = <<>>
    /\ pages = <<>>
    /\ call = CallIdle
    /\ s3 = S3Idle
    /\ builder = NoBuilder
    /\ dl = DlIdle
    /\ ex = ExIdle
    /\ printed = <<>>

SomeReleases ==
    {[version |-> v, assets |-> Assets(n), signer |-> s] :
        v \in SomeVersions, n \in SomeNameLists, s \in {1, 3}}

Init == UpdateInit(GithubCfgs \cup TraitCfgs, SomeReleases, SomeLines)

Next ==
    \/ Resolve \/ Select \/ Confirm \/ Download \/ Extract \/ Verify
    \/ ReplaceSelf \/ ReplaceMove \/ ReplaceReturn
    \/ MoveDestToTemp \/ MoveSourceToDest \/ MoveRestore \/ MoveFresh

Spec == Init /\ [][Next]_vars

(***************************************************************************)
(* The transaction under every line the user may type (SpecConfirm) and     *)
(* under every asset list the release may carry (SpecAsset).                *)
(***************************************************************************)
MaxLineLen == 3
MaxNameLen == 2
MaxAssets == 2

RECURSIVE SeqsUpTo(_, _)
SeqsUpTo(S, n) ==
    IF n = 0 THEN {<<>>}
    ELSE LET shorter == SeqsUpTo(S, n - 1) IN
         shorter \cup {Append(q, x) : q \in shorter, x \in S}

LineChars == {"y", "Y", "e", "s", "n", " "}
AllLines == SeqsUpTo(LineChars, MaxLineLen)

OneRelease == [version |-> Ver(1, 1, 0), assets |-> Assets(<<<<"a">>>>), signer |-> 1]

ConfirmCfgs ==
    [impl : {"github", "trait"}, target_version : {"tag"}, current_version : {Ver(1, 0, 0)},
     target : {Target0}, identifier : {NoneR}, no_confirm : BOOLEAN, has_parent : {TRUE},
     keys : {<<>>}, install_is_exe : {TRUE}]

ConfirmInit == UpdateInit(ConfirmCfgs, {OneRelease}, AllLines)
SpecConfirm == ConfirmInit /\ [][Next]_vars

AllNames == SeqsUpTo(Chars, MaxNameLen)
AllNameLists == SeqsUpTo(AllNames, MaxAssets)
SomeTargets == {<<>>, <<"a">>, <<"b">>, <<"a", "b">>}
SomeIdentifiers == {NoneR, Some(<<"b">>), Some(<<"b", "a">>)}

AssetCfgs ==
    [impl : {"trait"}, target_version : {"tag"}, current_version : {Ver(1, 0, 0)},
     target : SomeTargets, identifier : SomeIdentifiers, no_confirm : {TRUE},
     has_parent : {TRUE}, keys : {<<>>}, install_is_exe : {TRUE}]
    \cup
    [impl : {"github"}, target_version : {"tag"}, current_version : {Ver(1, 0, 0)},
     target : SomeTargets, identifier : {NoneR}, no_confirm : {TRUE},
     has_parent : {TRUE}, keys : {<<>>}, install_is_exe : {TRUE}]

AssetReleases == {[version |-> Ver(1, 1, 0), assets |-> Assets(n), signer |-> 1] : n \in AllNameLists}

AssetInit == UpdateInit(AssetCfgs, AssetReleases, {<<>>})
SpecAsset == AssetInit /\ [][Next]_vars


(***************************************************************************)
(* ReleaseList::fetch of the GitHub and Gitea backends: fetch_releases      *)
(* requests one page, reads its `Link` headers and recurses on the next.    *)
(* A url is the number of the page it names; a `Link` header value is the   *)
(* sequence of its link-values <uri>; rel="...".                            *)
(***************************************************************************)
MaxPages == 3
MaxPerPage == 2

LinkVal(uri, rel) == [uri |-> uri, rel |-> rel]

\* hyper_old_types LinkValue::new(uri): the whole text becomes the link and
\* no parameter is set, so rel() is None
LinkValue_new(text) == [link |-> text, rel |-> NoneR]

\* github.rs 238-253: the first header value whose LinkValue has rel Next
RECURSIVE github_next_link(_, _)
github_next_link(links, i) ==
    IF i > Len(links) THEN NoneR
    ELSE LET lv == LinkValue_new(links[i]) IN
         IF lv.rel.tag = "Some" /\ "next" \in lv.rel.v THEN Some(links[i])
         ELSE github_next_link(links, i + 1)

\* backends::find_rel_next_link: the uri of the first link-value of the
\* header value that carries rel="next"
RECURSIVE find_rel_next_link(_, _)
find_rel_next_link(header, i) ==
    IF i > Len(header) THEN NoneR
    ELSE IF header[i].rel = "next" THEN Some(header[i].uri)
    ELSE find_rel_next_link(header, i + 1)

\* gitea.rs 177-181: resp.all("link").into_iter().find_map(find_rel_next_link)
RECURSIVE gitea_next_link(_, _)
gitea_next_link(links, i) ==
    IF i > Len(links) THEN NoneR
    ELSE LET n == find_rel_next_link(links[i], 1) IN
         IF n.tag = "Some" THEN n ELSE gitea_next_link(links, i + 1)

next_link(backend, links) ==
    IF backend = "github" THEN github_next_link(links, 1) ELSE gitea_next_link(links, 1)

\* update.rs 54-56
has_target_asset(rel, target) ==
    \E i \in DOMAIN rel.assets : Contains(rel.assets[i].name, target)

\* a filter that stops at the first release without a target asset
RECURSIVE filter_target_prefix(_, _)
filter_target_prefix(rels, target) ==
    IF rels = <<>> THEN <<>>
    ELSE IF has_target_asset(Head(rels), target)
         THEN <<Head(rels)>> \o filter_target_prefix(Tail(rels), target)
         ELSE <<>>

\* github.rs 204-210, gitea.rs 162-168: the filter of fetch
RECURSIVE filter_target(_, _)
filter_target(rels, target) ==
    IF rels = <<>> THEN <<>>
    ELSE LET rest == filter_target(Tail(rels), target) IN
         IF has_target_asset(Head(rels), target) THEN <<Head(rels)>> \o rest ELSE rest

\* ReleaseList::fetch: the first request goes to the api url, page 1
fetch ==
    /\ call.pc = "built"
    /\ call' = [call EXCEPT !.pc = "request", !.url = 1]
    /\ UNCHANGED <<mvars, inputs, iovars, pages, s3, pc, release, asset, result, steps, reads, tmpdir, net>>

\* github.rs 214-262, gitea.rs 172-199: one request; the releases of the page
\* wait in a frame while the recursive call fetches the next page
fetch_releases ==
    /\ call.pc = "request"
    /\ net' = Append(net, call.url)
    /\ \/ \E k \in BackendErrKinds :
             call' = [call EXCEPT !.pc = "return", !.ret = Err(k, "fetch_releases")]
       \/ /\ call.url \in DOMAIN pages
          /\ LET page == pages[call.url]
                 next == next_link(cfg.backend, page.link)
             IN  IF next.tag = "None"
                 THEN call' = [call EXCEPT !.pc = "return", !.ret = Ok(page.releases)]
                 ELSE call' = [call EXCEPT !.url = next.v,
                                           !.frames = Append(@, page.releases)]
    /\ UNCHANGED <<mvars, inputs, iovars, pages, s3, pc, release, asset, result, steps, reads, tmpdir>>

\* releases.extend(Self::fetch_releases(link)?); releases
fetch_releases_extend ==
    /\ call.pc = "return"
    /\ call.frames # <<>>
    /\ LET n == Len(call.frames) IN
          call' = [call EXCEPT !.frames = SubSeq(@, 1, n - 1),
                               !.ret = IF IsErr(@) THEN @ ELSE Ok(call.frames[n] \o @.v)]
    /\ UNCHANGED <<mvars, inputs, iovars, pages, s3, pc, release, asset, result, steps, reads, tmpdir, net>>

\* fetch: let releases = fetch_releases(&api_url)?; filter by target; Ok(releases)
fetch_return ==
    /\ call.pc = "return"
    /\ call.frames = <<>>
    /\ call' = [call EXCEPT !.pc = "done"]
    /\ result' = IF IsErr(call.ret) THEN call.ret
                 ELSE IF cfg.target.tag = "None" THEN call.ret
                 ELSE Ok(filter_target(call.ret.v, cfg.target.v))
    /\ UNCHANGED <<mvars, inputs, iovars, pages, s3, pc, release, asset, steps, reads, tmpdir, net>>

\* The listings served: 1..MaxPages pages of 0..MaxPerPage releases each;
\* every page but the last carries a rel="next" link to the page after it.
Listed(k, j) == [name |-> <<k, j>>,
                 assets |-> Assets(<<IF (k + j) % 2 = 0 THEN <<"a">> ELSE <<"b">>>>)]
PageReleases(k, m) == [j \in 1..m |-> Listed(k, j)]
NextLinks(k) == {<<<<LinkVal(k + 1, "next")>>>>,
                 <<<<LinkVal(k - 1, "prev"), LinkVal(k + 1, "next")>>>>,
                 <<<<LinkVal(1, "first")>>, <<LinkVal(k + 1, "next")>>>>}
LastLinks(k) == {<<>>, <<<<LinkVal(k - 1, "prev"), LinkVal(1, "first")>>>>}

Page(k, m, l) == [releases |-> PageReleases(k, m), link |-> l]

\* the first n pages of a longer chain
RECURSIVE LinkedPages(_)
LinkedPages(n) ==
    IF n = 0 THEN {<<>>}
    ELSE {Append(q, Page(n, m, l)) : q \in LinkedPages(n - 1), m \in 0..MaxPerPage, l \in NextLinks(n)}

Listings ==
    UNION {{Append(q, Page(n, m, l)) : q \in LinkedPages(n - 1), m \in 0..MaxPerPage, l \in LastLinks(n)} :
           n \in 1..MaxPages}

ListCfgs == [impl : {"list"}, backend : {"github", "gitea"}, target : {NoneR, Some(<<"a">>)}]

FetchInit ==
    /\ cfg \in ListCfgs
    /\ pages \in Listings
    /\ call = [pc |-> "built", url |-> 0, frames |-> <<>>, ret |-> NoneR]
    /\ s3 = S3Idle
    /\ builder = NoBuilder
    /\ dl = DlIdle
    /\ ex = ExIdle
    /\ printed = <<>>
    /\ fs = [p \in Paths |-> Absent]
    /\ mv = MoveIdle
    /\ renames = <<>>
    /\ served = NoneR
    /\ stdin = <<>>
    /\ dest0 = Absent
    /\ pc = "idle"
    /\ release = NoneR
    /\ asset = NoneR
    /\ result = NoneR
    /\ steps = <<>>
    /\ reads = 0
    /\ tmpdir = "none"
    /\ net = <<>>

FetchNext == fetch \/ fetch_releases \/ fetch_releases_extend \/ fetch_return

SpecFetch == FetchInit /\ [][FetchNext]_vars

\* the calls of the listing are sequential and blocking: a call that can go on
\* does go on
SpecFetchLive == FetchInit /\ [][FetchNext]_vars /\ WF_vars(FetchNext)

(***************************************************************************)
(* The S3 backend: fetch_releases_from_s3 reads the <Contents> elements of  *)
(* the listing in order, get_latest_release and get_release_version choose  *)
(* from the list it built.  An object key is a sequence of tokens: name     *)
(* parts, "/", "-", "v" and digit groups such as "1.0.0".                   *)
(***************************************************************************)
MaxKeys == 3

\* \d+\.\d+\.\d+
VersionTokens == {"1.0.0", "2.0.0", "01.0.0"}

\* semver::Version::parse of a digit group; a leading zero is not semver
Version_parse(t) ==
    CASE t = "1.0.0" -> Ver(1, 0, 0)
      [] t = "2.0.0" -> Ver(2, 0, 0)
      [] OTHER -> BadVersion

\* where the version starts when -[v]{0,1}(?P<version>..)-.+ is tried at j
VersionAt(k, j) == IF j + 1 <= Len(k) /\ k[j + 1] = "v" THEN j + 2 ELSE j + 1

\* -[v]{0,1}(?P<version>\d+\.\d+\.\d+)-.+ matches at position j of the key
TailMatchesAt(k, j) ==
    /\ j \in DOMAIN k
    /\ k[j] = "-"
    /\ VersionAt(k, j) + 2 <= Len(k)
    /\ k[VersionAt(k, j)] \in VersionTokens
    /\ k[VersionAt(k, j) + 1] = "-"

Max(S) == CHOOSE x \in S : \A y \in S : y <= x

\* s3.rs 490-491, 527-531: regex.captures(&txt); the prefix group and then
\* the name take as much of the key as leaves a match
captures(k) ==
    LET NameEnds(q) == {j \in (q + 2)..Len(k) : TailMatchesAt(k, j)}
        PrefixEnds == {q \in {0} \cup {i \in DOMAIN k : k[i] = "/"} : NameEnds(q) # {}}
    IN  IF PrefixEnds = {} THEN NoneR
        ELSE LET q == Max(PrefixEnds)
                 j == Max(NameEnds(q))
             IN  Some([name |-> SubSeq(k, q + 1, j - 1), version |-> k[VersionAt(k, j)]])

\* s3.rs 521-525: Path::file_name of the key
file_name(k) ==
    LET slashes == {i \in DOMAIN k : k[i] = "/"} IN
    IF slashes = {} THEN k ELSE SubSeq(k, Max(slashes) + 1, Len(k))

\* Release::default()
Release_default == [name |-> <<>>, version |-> "", date |-> "", assets |-> <<>>]

\* s3.rs 520-540: the text of a <Key> element
on_key(current, k) ==
    LET c == captures(k) IN
    IF c.tag = "None" THEN current
    ELSE LET r == IF current.tag = "Some" THEN current.v ELSE Release_default IN
         Some([r EXCEPT !.name = c.v.name, !.version = c.v.version,
                        !.assets = <<Asset(file_name(k), k)>>])

\* s3.rs 541-544: the text of a <LastModified> element
on_last_modified(current, txt) ==
    LET r == IF current.tag = "Some" THEN current.v ELSE Release_default IN
    Some([r EXCEPT !.date = txt])

\* the merge keeping only the assets of the newcomer
add_to_releases_list_replacing(releases, rel) ==
    IF rel.version # "" /\ rel.name # <<>>
    THEN LET found == {i \in DOMAIN releases :
                          releases[i].name = rel.name /\ releases[i].version = rel.version}
         IN  IF found # {}
             THEN [releases EXCEPT ![Max(found)] = rel]
             ELSE Append(releases, rel)
    ELSE releases

\* s3.rs 572-586: position, append the old assets, push, swap_remove(index)
add_to_releases_list(releases, rel) ==
    IF rel.version # "" /\ rel.name # <<>>
    THEN LET found == {i \in DOMAIN releases :
                          releases[i].name = rel.name /\ releases[i].version = rel.version}
         IN  IF found # {}
             THEN LET index == CHOOSE i \in found : \A j \in found : i <= j IN
                  [releases EXCEPT ![index] = [rel EXCEPT !.assets = @ \o releases[index].assets]]
             ELSE Append(releases, rel)
    ELSE releases

\* s3.rs 507-510, 550-552: if let Some(release) = current_release { add .. }
flush(releases, current) ==
    IF current.tag = "Some" THEN add_to_releases_list(releases, current.v) ELSE releases

\* s3.rs 366-378: the comparator handed to max_by
compare_versions(x, y) ==
    LET g == bump_is_greater(Version_parse(y.version), Version_parse(x.version)) IN
    IF IsErr(g) THEN "Less" ELSE IF g.v THEN "Greater" ELSE "Less"

\* Iterator::max_by: reduce(|x, y| match compare(&x, &y) { Greater => x, _ => y })
RECURSIVE max_by(_, _, _)
max_by(rels, i, acc) ==
    IF i > Len(rels) THEN acc
    ELSE max_by(rels, i + 1, IF compare_versions(acc, rels[i]) = "Greater" THEN acc ELSE rels[i])

\* s3.rs 364-383
latest_of(rels) ==
    IF rels = <<>> THEN Err("Release", "get_latest_release") ELSE Ok(max_by(rels, 2, rels[1]))

\* s3.rs 388-396: releases.iter().find(|x| x.version == ver)
version_of(rels, ver) ==
    LET found == {i \in DOMAIN rels : rels[i].version = ver} IN
    IF found = {} THEN Err("Release", "get_release_version")
    ELSE Ok(rels[CHOOSE i \in found : \A j \in found : i <= j])

\* s3.rs 453-476: the one request of the listing
s3_request ==
    /\ s3.pc = "request"
    /\ net' = Append(net, 1)
    /\ \/ \E k \in {"Reqwest", "Network"} :
             s3' = [s3 EXCEPT !.pc = "listed", !.ret = Err(k, "fetch_releases_from_s3")]
       \/ s3' = [s3 EXCEPT !.pc = "read", !.i = 1]
    /\ UNCHANGED <<mvars, inputs, iovars, pages, call, pc, release, asset, result, steps, reads, tmpdir>>

\* s3.rs 502-548: one <Contents> element with its <Key> and <LastModified>
s3_read_contents ==
    /\ s3.pc = "read"
    /\ s3.i <= Len(pages[1].keys)
    /\ \/ s3' = [s3 EXCEPT !.pc = "listed", !.ret = Err("Release", "read_event")]
       \/ s3' = [s3 EXCEPT !.i = @ + 1,
                           !.releases = flush(@, s3.current),
                           !.current = on_last_modified(on_key(NoneR, pages[1].keys[s3.i]), "d")]
    /\ UNCHANGED <<mvars, inputs, iovars, pages, call, pc, release, asset, result, steps, reads, tmpdir, net>>

\* s3.rs 549-554, 567: Event::Eof
s3_eof ==
    /\ s3.pc = "read"
    /\ s3.i > Len(pages[1].keys)
    /\ s3' = [s3 EXCEPT !.pc = "listed", !.current = NoneR,
                        !.releases = flush(@, s3.current),
                        !.ret = Ok(flush(s3.releases, s3.current))]
    /\ UNCHANGED <<mvars, inputs, iovars, pages, call, pc, release, asset, result, steps, reads, tmpdir, net>>

S3Return(r) ==
    /\ s3' = [s3 EXCEPT !.pc = "done"]
    /\ result' = r
    /\ UNCHANGED <<mvars, inputs, iovars, pages, call, pc, release, asset, steps, reads, tmpdir, net>>

\* s3.rs 362-384
get_latest_release ==
    /\ s3.pc = "listed"
    /\ cfg.op = "latest"
    /\ S3Return(IF IsErr(s3.ret) THEN s3.ret ELSE latest_of(s3.ret.v))

\* s3.rs 386-397
get_release_version ==
    /\ s3.pc = "listed"
    /\ cfg.op = "version"
    /\ S3Return(IF IsErr(s3.ret) THEN s3.ret ELSE version_of(s3.ret.v, cfg.target_version))

\* s3.rs 97-107: ReleaseList::fetch
s3_fetch ==
    /\ s3.pc = "listed"
    /\ cfg.op = "fetch"
    /\ S3Return(IF IsErr(s3.ret) THEN s3.ret
                ELSE IF cfg.target.tag = "None" THEN s3.ret
                ELSE Ok(filter_target(s3.ret.v, cfg.target.v)))

\* The keys a bucket may list.
SomeKeys == {<<"t", "-", "1.0.0", "-", "a">>, <<"t", "-", "1.0.0", "-", "b">>,
             <<"t", "-", "v", "2.0.0", "-", "a">>, <<"p", "/", "t", "-", "2.0.0", "-", "b">>,
             <<"t", "-", "01.0.0", "-", "a">>, <<"u", "-", "1.0.0", "-", "a">>,
             <<"t", "-", "1.0.0">>, <<"p", "/", "readme">>}

RECURSIVE DistinctSeqs(_, _)
DistinctSeqs(S, n) ==
    IF n = 0 THEN {<<>>}
    ELSE LET shorter == DistinctSeqs(S, n - 1) IN
         shorter \cup UNION {{Append(q, x) : x \in S \ {q[i] : i \in DOMAIN q}} :
                              q \in {r \in shorter : Len(r) = n - 1}}

S3Cfgs ==
    [impl : {"s3"}, op : {"latest"}, target_version : {""}, target : {NoneR}]
    \cup [impl : {"s3"}, op : {"version"}, target_version : {"1.0.0", "2.0.0"}, target : {NoneR}]
    \cup [impl : {"s3"}, op : {"fetch"}, target_version : {""}, target : {NoneR, Some(<<"a">>)}]

S3Init ==
    /\ cfg \in S3Cfgs
    /\ pages \in {<<[keys |-> ks]>> : ks \in DistinctSeqs(SomeKeys, MaxKeys)}
    /\ s3 = [pc |-> "request", i |-> 0, current |-> NoneR, releases |-> <<>>, ret |-> NoneR]
    /\ builder = NoBuilder
    /\ dl = DlIdle
    /\ ex = ExIdle
    /\ printed = <<>>
    /\ call = CallIdle
    /\ fs = [p \in Paths |-> Absent]
    /\ mv = MoveIdle
    /\ renames = <<>>
    /\ served = NoneR
    /\ stdin = <<>>
    /\ dest0 = Absent
    /\ pc = "idle"
    /\ release = NoneR
    /\ asset = NoneR
    /\ result = NoneR
    /\ steps = <<>>
    /\ reads = 0
    /\ tmpdir = "none"
    /\ net = <<>>

S3Next ==
    \/ s3_request \/ s3_read_contents \/ s3_eof
    \/ get_latest_release \/ get_release_version \/ s3_fetch

SpecS3 == S3Init /\ [][S3Next]_vars

(***************************************************************************)
(* UpdateBuilder of the three backends: the setters and build().            *)
(***************************************************************************)
Backends == {"github", "gitea", "s3"}

\* the Option fields of the builder struct
BuilderFields(b) ==
    (CASE b = "github" -> {"repo_owner", "repo_name"}
       [] b = "gitea" -> {"host", "repo_owner", "repo_name"}
       [] OTHER -> {"bucket_name", "region"})
    \cup {"target", "bin_name", "bin_install_path", "bin_path_in_archive",
          "current_version", "target_version"}

\* github.rs 289-303 (bin_install_path is the current exe), gitea.rs 524-543,
\* s3.rs 132-150 (every Option is None)
UpdateBuilder_new(b) ==
    [backend |-> b,
     f |-> [x \in BuilderFields(b) |->
               IF b = "github" /\ x = "bin_install_path" THEN Some("current_exe") ELSE NoneR],
     path_given |-> FALSE]

\* the fields build() insists on, in the order it looks at them
CheckedFields(b) ==
    CASE b = "github" -> <<"repo_owner", "repo_name", "target", "bin_name", "bin_install_path",
                           "bin_path_in_archive", "current_version">>
      [] b = "gitea" -> <<"host", "repo_owner", "repo_name", "bin_name", "bin_path_in_archive",
                          "current_version">>
      [] OTHER -> <<"bucket_name", "region", "bin_name", "bin_path_in_archive", "current_version">>

\* build() bailing only on the last field it looks at
first_missing_last_only(bd, fields, i) ==
    IF bd.f[fields[Len(fields)]].tag = "None" THEN Some(fields[Len(fields)]) ELSE NoneR

\* the first bail!(Error::Config, "x required") that build() meets
RECURSIVE first_missing(_, _, _)
first_missing(bd, fields, i) ==
    IF i > Len(fields) THEN NoneR
    ELSE IF bd.f[fields[i]].tag = "None" THEN Some(fields[i])
    ELSE first_missing(bd, fields, i + 1)

\* the Update struct build() fills in: target falls back on get_target()
\* (gitea.rs 394-398, s3.rs 304-308), bin_install_path on the current exe
Update_of(bd) ==
    [x \in BuilderFields(bd.backend) |->
        IF bd.f[x].tag = "None" /\ x = "target" /\ bd.backend # "github" THEN Some("get_target")
        ELSE IF bd.f[x].tag = "None" /\ x = "bin_install_path" THEN Some("current_exe")
        ELSE bd.f[x]]

\* github.rs 412-454, gitea.rs 371-423, s3.rs 285-332; exe_ok says whether
\* env::current_exe() succeeds when build() has to ask
build_of(bd, exe_ok) ==
    IF bd.backend # "github" /\ bd.f["bin_install_path"].tag = "None" /\ ~exe_ok
    THEN IoErr("current_exe")
    ELSE LET m == first_missing(bd, CheckedFields(bd.backend), 1) IN
         IF m.tag = "Some" THEN Err("Config", m.v) ELSE Ok(Update_of(bd))

\* a setter: self.x = Some(..); a later build() is a new call
SetField(x, v) ==
    /\ builder.backend \in Backends
    /\ x \in BuilderFields(builder.backend)
    /\ builder' = [builder EXCEPT !.f[x] = Some(v)]
    /\ result' = NoneR
    /\ UNCHANGED <<mvars, cfg, served, stdin, dest0, iovars, lvars, pc, release, asset, steps, reads,
                   tmpdir, net>>

with_host == SetField("host", "h")
repo_owner == SetField("repo_owner", "o")
repo_name == SetField("repo_name", "r")
bucket_name == SetField("bucket_name", "b")
region == SetField("region", "eu")
current_version == SetField("current_version", "1.0.0")
target_version_tag == SetField("target_version", "tag")
target == SetField("target", "linux")
bin_install_path == SetField("bin_install_path", "/opt/bin")

\* the names and paths the caller passes
BinNames == {"bin", "app"}
BinPaths == {"dir/bin", "bin"}

\* bin_path_in_archive(path): path_given remembers that the caller chose the
\* path (history, not a field of the struct)
bin_path_in_archive ==
    /\ builder.backend \in Backends
    /\ \E bin_path \in BinPaths :
          builder' = [builder EXCEPT !.f["bin_path_in_archive"] = Some(bin_path),
                                     !.path_given = TRUE]
    /\ result' = NoneR
    /\ UNCHANGED <<mvars, cfg, served, stdin, dest0, iovars, lvars, pc, release, asset, steps, reads,
                   tmpdir, net>>

\* bin_name(name) also sets bin_path_in_archive when that is still None (on
\* Gitea both get the name with the platform's exe suffix)
bin_name ==
    /\ builder.backend \in Backends
    /\ \E name \in BinNames :
          builder' = [builder EXCEPT !.f["bin_name"] = Some(name),
                                     !.f["bin_path_in_archive"] =
                                         IF @.tag = "None" THEN Some(name) ELSE @]
    /\ result' = NoneR
    /\ UNCHANGED <<mvars, cfg, served, stdin, dest0, iovars, lvars, pc, release, asset, steps, reads,
                   tmpdir, net>>

\* build(&self)
build ==
    /\ builder.backend \in Backends
    /\ \E exe_ok \in BOOLEAN : result' = build_of(builder, exe_ok)
    /\ UNCHANGED <<mvars, inputs, iovars, lvars, pc, release, asset, steps, reads, tmpdir, net>>

BuildInit ==
    /\ builder \in {UpdateBuilder_new(b) : b \in Backends}
    /\ dl = DlIdle
    /\ ex = ExIdle
    /\ printed = <<>>
    /\ cfg = [impl |-> "none"]
    /\ pages = <<>>
    /\ call = CallIdle
    /\ s3 = S3Idle
    /\ fs = [p \in Paths |-> Absent]
    /\ mv = MoveIdle
    /\ renames = <<>>
    /\ served = NoneR
    /\ stdin = <<>>
    /\ dest0 = Absent
    /\ pc = "idle"
    /\ release = NoneR
    /\ asset = NoneR
    /\ result = NoneR
    /\ steps = <<>>
    /\ reads = 0
    /\ tmpdir = "none"
    /\ net = <<>>

BuildNext ==
    \/ with_host \/ repo_owner \/ repo_name \/ bucket_name \/ region
    \/ current_version \/ target_version_tag \/ target \/ bin_name
    \/ bin_install_path \/ bin_path_in_archive \/ build

SpecBuild == BuildInit /\ [][BuildNext]_vars

(***************************************************************************)
(* The greater-than check on its own, over every pair of version strings   *)
(* with numbers up to MaxNum and the strings that are not semver.           *)
(***************************************************************************)
MaxNum == 2

AllVersions == {Ver(a, b, c) : a \in 0..MaxNum, b \in 0..MaxNum, c \in 0..MaxNum} \cup {BadVersion}

\* the call of update.rs 172: bump_is_greater(&current_version, &release.version)
compare ==
    /\ pc = "compare"
    /\ pc' = "compared"
    /\ result' = bump_is_greater(cfg.current_version, cfg.latest)
    /\ UNCHANGED <<mvars, inputs, iovars, lvars, release, asset, steps, reads, tmpdir, net>>

VersionInit ==
    /\ cfg \in [impl : {"version"}, current_version : AllVersions, latest : AllVersions]
    /\ pc = "compare"
    /\ builder = NoBuilder
    /\ dl = DlIdle
    /\ ex = ExIdle
    /\ printed = <<>>
    /\ pages = <<>>
    /\ call = CallIdle
    /\ s3 = S3Idle
    /\ fs = [p \in Paths |-> Absent]
    /\ mv = MoveIdle
    /\ renames = <<>>
    /\ served = NoneR
    /\ stdin = <<>>
    /\ dest0 = Absent
    /\ release = NoneR
    /\ asset = NoneR
    /\ result = NoneR
    /\ steps = <<>>
    /\ reads = 0
    /\ tmpdir = "none"
    /\ net = <<>>

SpecVersion == VersionInit /\ [][compare]_vars

(***************************************************************************)
(* Resolving a configured tag against each backend: update.rs 196-200 and   *)
(* github.rs 571-574 call get_release_version and return its error.         *)
(***************************************************************************)
MaxTags == 2

TagTokens == {"1.0.0", "2.0.0", "3.0.0"}

\* the tags the backend holds a release for
HeldTags == {pages[1].tags[i] : i \in DOMAIN pages[1].tags}

\* the releases an S3 listing of the held tags yields (s3.rs 389)
listed_releases == [i \in DOMAIN pages[1].tags |-> [Release_default EXCEPT !.version = pages[1].tags[i]]]

\* the status of the fetch-by-tag endpoint: 200 for a held tag, 404 otherwise
tag_status(tag) == IF tag \in HeldTags THEN 200 ELSE 404

is_success(status) == status >= 200 /\ status < 300

\* the `?` of update.rs 198 / github.rs 573 on the backend's answer r
resolve_tag(r) ==
    /\ net' = Append(net, "tag")
    /\ steps' = Append(steps, "resolve")
    /\ IF IsErr(r) THEN Return(r) /\ UNCHANGED release
       ELSE pc' = "select" /\ release' = Some(r.v) /\ UNCHANGED result
    /\ UNCHANGED <<mvars, inputs, iovars, lvars, asset, reads, tmpdir>>

\* github.rs 497-514
github_get_release_version ==
    /\ pc = "resolve"
    /\ cfg.backend = "github"
    /\ \/ resolve_tag(Err("Reqwest", "get_release_version"))
       \/ IF ~is_success(tag_status(cfg.target_version))
          THEN resolve_tag(Err("Network", "get_release_version"))
          ELSE \/ resolve_tag(Err("Reqwest", "json"))
               \/ resolve_tag(Err("Release", "from_release"))
               \/ resolve_tag(Ok([Release_default EXCEPT !.version = cfg.target_version]))

\* gitea.rs 464-473; crate::get fails with Network on a non-success status
gitea_get_release_version ==
    /\ pc = "resolve"
    /\ cfg.backend = "gitea"
    /\ \/ resolve_tag(Err("Reqwest", "get"))
       \/ IF ~is_success(tag_status(cfg.target_version))
          THEN resolve_tag(Err("Network", "get"))
          ELSE \/ resolve_tag(Err("Json", "into_json"))
               \/ resolve_tag(Err("Release", "from_release_gitea"))
               \/ resolve_tag(Ok([Release_default EXCEPT !.version = cfg.target_version]))

\* s3.rs 386-397
s3_get_release_version ==
    /\ pc = "resolve"
    /\ cfg.backend = "s3"
    /\ \/ \E k \in {"Reqwest", "Network", "Release"} :
             resolve_tag(Err(k, "fetch_releases_from_s3"))
       \/ resolve_tag(version_of(listed_releases, cfg.target_version))

TagInit ==
    /\ cfg \in [impl : {"tagged"}, backend : Backends, target_version : TagTokens]
    /\ pages \in {<<[tags |-> ts]>> : ts \in DistinctSeqs(TagTokens, MaxTags)}
    /\ pc = "resolve"
    /\ fs \in {[p \in Paths |-> IF p = "dest" THEN d ELSE Absent] : d \in {"old", Absent}}
    /\ dest0 = fs["dest"]
    /\ builder = NoBuilder
    /\ dl = DlIdle
    /\ ex = ExIdle
    /\ printed = <<>>
    /\ call = CallIdle
    /\ s3 = S3Idle
    /\ mv = MoveIdle
    /\ renames = <<>>
    /\ served = NoneR
    /\ stdin = <<>>
    /\ release = NoneR
    /\ asset = NoneR
    /\ result = NoneR
    /\ steps = <<>>
    /\ reads = 0
    /\ tmpdir = "none"
    /\ net = <<>>

TagNext == github_get_release_version \/ gitea_get_release_version \/ s3_get_release_version

SpecTag == TagInit /\ [][TagNext]_vars

(***************************************************************************)
(* Download::download_to (lib.rs 589-654): the request, the status check    *)
(* and the buffered copy of the body into the caller's sink.                *)
(***************************************************************************)
MaxChunks == 2
MaxChunk == 2

Statuses == {200, 206, 304, 404, 500}

\* the bodies a response may carry: the sizes of the buffers fill_buf yields
Bodies == SeqsUpTo(1..MaxChunk, MaxChunks)

Min(a, b) == IF a <= b THEN a ELSE b

\* lib.rs 615-621: bail!(Error::Update, "Download request failed with status")
status_error == Err("Update", "status")

DlReturn(r) == dl' = [dl EXCEPT !.pc = "ret", !.ret = r]

\* lib.rs 589-633: headers, send()?, content-length, status check, progress bar
download_to ==
    /\ dl.pc = "send"
    /\ net' = Append(net, "download")
    /\ \/ DlReturn(Err("Reqwest", "send"))
       \/ IF ~is_success(cfg.status)
          THEN dl' = [dl EXCEPT !.pc = "ret", !.status = cfg.status, !.ret = status_error]
          ELSE dl' = [dl EXCEPT !.pc = "copy", !.status = cfg.status, !.i = 1,
                                !.bar = (cfg.size # 0 /\ cfg.show_progress)]
    /\ UNCHANGED <<mvars, inputs, ex, printed, lvars, pc, release, asset, result, steps, reads, tmpdir>>

\* lib.rs 634-654: one turn of the loop; an empty buffer ends it
fill_buf ==
    /\ dl.pc = "copy"
    /\ \/ DlReturn(Err("Io", "fill_buf"))
       \/ /\ dl.i <= Len(cfg.body)
          /\ \/ \E n \in 0..(cfg.body[dl.i] - 1) :
                   dl' = [dl EXCEPT !.pc = "ret", !.ret = Err("Io", "write_all"),
                                    !.sink = IF n = 0 THEN @ ELSE Append(@, n)]
             \/ dl' = [dl EXCEPT !.i = @ + 1, !.sink = Append(@, cfg.body[dl.i]),
                                 !.downloaded = Min(@ + cfg.body[dl.i], cfg.size)]
       \/ /\ dl.i > Len(cfg.body)
          /\ DlReturn(Ok("()"))
    /\ UNCHANGED <<mvars, inputs, ex, printed, lvars, pc, release, asset, result, steps, reads, tmpdir, net>>

DownloadInit ==
    /\ cfg \in {[impl |-> "download", status |-> st, body |-> b, size |-> sz, show_progress |-> sp] :
                   st \in Statuses, b \in Bodies, sz \in {0, 1}, sp \in BOOLEAN}
    /\ dl = [DlIdle EXCEPT !.pc = "send"]
    /\ ex = ExIdle
    /\ printed = <<>>
    /\ pc = "idle"
    /\ builder = NoBuilder
    /\ pages = <<>>
    /\ call = CallIdle
    /\ s3 = S3Idle
    /\ fs = [p \in Paths |-> Absent]
    /\ mv = MoveIdle
    /\ renames = <<>>
    /\ served = NoneR
    /\ stdin = <<>>
    /\ dest0 = Absent
    /\ release = NoneR
    /\ asset = NoneR
    /\ result = NoneR
    /\ steps = <<>>
    /\ reads = 0
    /\ tmpdir = "none"
    /\ net = <<>>

DownloadNext == download_to \/ fill_buf

SpecDownload == DownloadInit /\ [][DownloadNext]_vars

(***************************************************************************)
(* detect_archive (lib.rs 241-282).  A path is the sequence of the pieces   *)
(* of its file name, the dot being a piece of its own.                      *)
(***************************************************************************)
MaxPathLen == 5

NameTokens == {"a", ".", "zip", "tar", "gz"}

ArchiveKind(k, c) == [k |-> k, c |-> c]
Zip == ArchiveKind("Zip", "-")
Tar(c) == ArchiveKind("Tar", c)
Plain(c) == ArchiveKind("Plain", c)
ArchiveNotEnabled(what) == Err("ArchiveNotEnabled", what)

\* the positions of the dots of a name
Dots(name) == {i \in DOMAIN name : name[i] = "."}

\* an extension that is whatever follows the last dot, hidden files included
extension_after_any_dot(name) ==
    IF Dots(name) = {} THEN NoneR
    ELSE Some(SubSeq(name, Max(Dots(name)) + 1, Len(name)))

\* Path::extension: None for "..", for a name without a dot and for a name
\* whose only dot is its first character; else the part after the last dot
extension(name) ==
    IF name = <<".", ".">> \/ Dots(name) = {} \/ Max(Dots(name)) = 1 THEN NoneR
    ELSE Some(SubSeq(name, Max(Dots(name)) + 1, Len(name)))

\* Path::file_stem: the name without its extension
file_stem(name) ==
    IF extension(name) = NoneR THEN name
    ELSE SubSeq(name, 1, Max(Dots(name)) - 1)

\* lib.rs 241-282; zip and tar tell whether archive-zip and archive-tar are built in
detect_archive(path, zip, tar) ==
    LET e == extension(path) IN
    CASE e = Some(<<"zip">>) -> IF zip THEN Ok(Zip) ELSE ArchiveNotEnabled("zip")
      [] e = Some(<<"tar">>) -> IF tar THEN Ok(Tar("None")) ELSE ArchiveNotEnabled("tar")
      [] e = Some(<<"gz">>) ->
            IF extension(file_stem(path)) = Some(<<"tar">>)
            THEN IF tar THEN Ok(Tar("Gz")) ELSE ArchiveNotEnabled("tar")
            ELSE Ok(Plain("Gz"))
      [] OTHER -> Ok(Plain("None"))

\* a call of detect_archive on the configured path
detect ==
    /\ pc = "detect"
    /\ pc' = "detected"
    /\ result' = detect_archive(cfg.path, cfg.zip, cfg.tar)
    /\ UNCHANGED <<mvars, inputs, iovars, lvars, release, asset, steps, reads, tmpdir, net>>

DetectInit ==
    /\ cfg \in [impl : {"detect"}, path : SeqsUpTo(NameTokens, MaxPathLen), zip : BOOLEAN, tar : BOOLEAN]
    /\ pc = "detect"
    /\ dl = DlIdle
    /\ ex = ExIdle
    /\ printed = <<>>
    /\ builder = NoBuilder
    /\ pages = <<>>
    /\ call = CallIdle
    /\ s3 = S3Idle
    /\ fs = [p \in Paths |-> Absent]
    /\ mv = MoveIdle
    /\ renames = <<>>
    /\ served = NoneR
    /\ stdin = <<>>
    /\ dest0 = Absent
    /\ release = NoneR
    /\ asset = NoneR
    /\ result = NoneR
    /\ steps = <<>>
    /\ reads = 0
    /\ tmpdir = "none"
    /\ net = <<>>

SpecDetect == DetectInit /\ [][detect]_vars

(***************************************************************************)
(* Extract::extract_file (lib.rs 404-480) on an archive with the listed     *)
(* entries, into an empty directory.                                        *)
(***************************************************************************)
MaxEntries == 2

\* entry paths: the sequence of their components, each a file name in pieces
EntryNames == {<<<<"bin">>>>, <<<<"dir">>, <<"bin">>>>, <<<<"other">>>>}

ArchiveNames == {<<"a", ".", "zip">>, <<"a", ".", "tar">>, <<"a", ".", "tar", ".", "gz">>,
                 <<"a", ".", "gz">>, <<"a">>}

File(name, content) == [name |-> name, content |-> content]

\* what a file holds: a payload as it is, or the gzip encoding of a payload
Bytes(payload) == [gzip |-> FALSE, payload |-> payload]
Gzip(bytes) == [bytes EXCEPT !.gzip = TRUE]
Gunzip(bytes) == [bytes EXCEPT !.gzip = FALSE]

ExReturn(r) == ex' = [ex EXCEPT !.pc = "ret", !.ret = r]

\* the entries whose path is the one asked for
entries_named(entries, name) == {i \in DOMAIN entries : entries[i] = name}

\* lib.rs 409-414, 463-470: File::open, the archive kind, the dispatch
extract_file ==
    /\ ex.pc = "open"
    /\ \/ ExReturn(IoErr("File::open"))
       \/ LET archive == IF cfg.archive = NoneR THEN detect_archive(cfg.source, cfg.zip, cfg.tar)
                         ELSE Ok(cfg.archive.v) IN
          IF IsErr(archive) THEN ExReturn(archive)
          ELSE ex' = [ex EXCEPT !.pc = archive.v.k, !.op = "extract_file", !.kind = Some(archive.v)]
    /\ UNCHANGED <<mvars, inputs, dl, printed, lvars, pc, release, asset, result, steps, reads, tmpdir, net>>

\* Path::file_name of a path given by its components
path_file_name(path) == IF path = <<>> THEN NoneR ELSE Some(path[Len(path)])

\* lib.rs 316-329 and the io::copy from it: with compression-flate2 (gz) a Gz
\* source is decoded, without it the file is read as it is
get_archive_reader(bytes, compression, gz) ==
    IF gz /\ compression = "Gz"
    THEN (IF bytes.gzip THEN Ok(Gunzip(bytes)) ELSE IoErr("GzDecoder"))
    ELSE Ok(bytes)

\* lib.rs 422-436: the Plain arm writes the source under the asked file name
extract_file_plain ==
    /\ ex.pc = "Plain"
    /\ ex.op = "extract_file"
    /\ LET file_name0 == path_file_name(cfg.file_to_extract)
           read == get_archive_reader(cfg.bytes, ex.kind.v.c, cfg.gz) IN
       \/ ExReturn(IoErr("create_dir_all"))
       \/ IF file_name0 = NoneR THEN ExReturn(Err("Update", "Extractor source has no file-name"))
          ELSE \/ ExReturn(IoErr("File::create"))
               \/ ex' = [ex EXCEPT !.pc = "ret", !.ret = IoErr("copy"),
                                   !.written = @ \cup {File(file_name0.v, "partial")}]
               \/ /\ IsOk(read)
                  /\ ex' = [ex EXCEPT !.pc = "ret", !.ret = Ok("()"),
                                      !.written = @ \cup {File(file_name0.v, read.v)}]
    /\ UNCHANGED <<mvars, inputs, dl, printed, lvars, pc, release, asset, result, steps, reads, tmpdir, net>>

\* lib.rs 437-452: entries()?, find, ok_or_else(Error::Update), unpack_in
extract_file_tar ==
    /\ ex.pc = "Tar"
    /\ \/ ExReturn(IoErr("entries"))
       \/ IF entries_named(cfg.entries, cfg.file_to_extract) = {}
          THEN ExReturn(Err("Update", "Could not find the required path in the archive"))
          ELSE \/ ex' = [ex EXCEPT !.pc = "ret", !.ret = IoErr("unpack_in"),
                                   !.written = @ \cup {File(cfg.file_to_extract, "partial")}]
               \/ ExReturn(IoErr("unpack_in"))
               \/ ex' = [ex EXCEPT !.pc = "ret", !.ret = Ok("()"),
                                   !.written = @ \cup {File(cfg.file_to_extract, "whole")}]
    /\ UNCHANGED <<mvars, inputs, dl, printed, lvars, pc, release, asset, result, steps, reads, tmpdir, net>>

\* lib.rs 471-477: ZipArchive::new(source)?, by_name(..)?, File::create, io::copy
extract_file_zip ==
    /\ ex.pc = "Zip"
    /\ \/ ExReturn(Err("Zip", "ZipArchive::new"))
       \/ IF entries_named(cfg.entries, cfg.file_to_extract) = {}
          THEN ExReturn(Err("Zip", "by_name: FileNotFound"))
          ELSE \/ ExReturn(IoErr("File::create"))
               \/ ex' = [ex EXCEPT !.pc = "ret", !.ret = IoErr("copy"),
                                   !.written = @ \cup {File(cfg.file_to_extract, "partial")}]
               \/ ex' = [ex EXCEPT !.pc = "ret", !.ret = Ok("()"),
                                   !.written = @ \cup {File(cfg.file_to_extract, "whole")}]
    /\ UNCHANGED <<mvars, inputs, dl, printed, lvars, pc, release, asset, result, steps, reads, tmpdir, net>>

ExtractInit ==
    /\ cfg \in [impl : {"extract"}, source : ArchiveNames, archive : {NoneR, Some(Zip), Some(Tar("None"))},
                zip : BOOLEAN, tar : BOOLEAN, gz : BOOLEAN, bytes : {Bytes("P")},
                entries : SeqsUpTo(EntryNames, MaxEntries), file_to_extract : EntryNames]
    /\ cfg.archive = Some(Zip) => cfg.zip
    /\ cfg.archive = Some(Tar("None")) => cfg.tar
    /\ ex = [ExIdle EXCEPT !.pc = "open"]
    /\ printed = <<>>
    /\ dl = DlIdle
    /\ pc = "idle"
    /\ builder = NoBuilder
    /\ pages = <<>>
    /\ call = CallIdle
    /\ s3 = S3Idle
    /\ fs = [p \in Paths |-> Absent]
    /\ mv = MoveIdle
    /\ renames = <<>>
    /\ served = NoneR
    /\ stdin = <<>>
    /\ dest0 = Absent
    /\ release = NoneR
    /\ asset = NoneR
    /\ result = NoneR
    /\ steps = <<>>
    /\ reads = 0
    /\ tmpdir = "none"
    /\ net = <<>>

ExtractNext == extract_file \/ extract_file_plain \/ extract_file_tar \/ extract_file_zip

SpecExtract == ExtractInit /\ [][ExtractNext]_vars

(***************************************************************************)
(* Parsing the JSON of a release listing: ReleaseAsset::from_asset,          *)
(* Release::from_release (github.rs 88-111) and Release::from_release_gitea *)
(* (gitea.rs 36-59).  A JSON value that is absent or not of the wanted type *)
(* is NoneR, as as_str() and as_array() answer.                             *)
(***************************************************************************)
MaxReleases == 2

\* the first error of a sequence of results, else the sequence of their values
RECURSIVE collect(_)
collect(rs) ==
    IF rs = <<>> THEN Ok(<<>>)
    ELSE IF IsErr(Head(rs)) THEN Head(rs)
    ELSE LET rest == collect(Tail(rs)) IN
         IF IsErr(rest) THEN rest ELSE Ok(<<Head(rs).v>> \o rest.v)

\* github.rs 33-44, gitea.rs 21-32
from_asset(a) ==
    IF a.browser_download_url = NoneR THEN Err("Release", "Asset missing browser_download_url")
    ELSE IF a.name = NoneR THEN Err("Release", "Asset missing name")
    ELSE Ok(Asset(a.name.v, a.browser_download_url.v))

\* str::trim_left_matches('v') / trim_start_matches('v'): every leading v goes
RECURSIVE trim_start_matches(_)
trim_start_matches(s) ==
    IF s = <<>> THEN s
    ELSE IF Head(s) = "v" THEN trim_start_matches(Tail(s)) ELSE s

\* the checks both parsers make, in their order, and the fields they fill
parse_release(r) ==
    IF r.tag_name = NoneR THEN Err("Release", "Release missing tag_name")
    ELSE IF r.created_at = NoneR THEN Err("Release", "Release missing created_at")
    ELSE IF r.assets = NoneR THEN Err("Release", "No assets found")
    ELSE LET assets == collect([i \in DOMAIN r.assets.v |-> from_asset(r.assets.v[i])]) IN
         IF IsErr(assets) THEN assets
         ELSE Ok([name |-> IF r.name = NoneR THEN r.tag_name.v ELSE r.name.v,
                  tag |-> r.tag_name.v,
                  date |-> r.created_at.v,
                  assets |-> assets.v])

\* github.rs 88-111: the Release keeps the tag
from_release(r) == parse_release(r)

\* github.rs 128-130: Release::version
version(rel) == trim_start_matches(rel.tag)

\* gitea.rs 36-59: the Release keeps the version
from_release_gitea(r) ==
    LET p == parse_release(r) IN
    IF IsErr(p) THEN p
    ELSE Ok([name |-> p.v.name, version |-> trim_start_matches(p.v.tag), date |-> p.v.date,
             assets |-> p.v.assets])

\* github.rs 225-232, gitea.rs 185-192: as_array, map(from_release), collect
parse_listing(backend, json) ==
    IF json = NoneR THEN Err("Release", "No releases found")
    ELSE collect([i \in DOMAIN json.v |->
                     IF backend = "github" THEN from_release(json.v[i])
                     ELSE from_release_gitea(json.v[i])])

parse ==
    /\ pc = "parse"
    /\ pc' = "parsed"
    /\ result' = parse_listing(cfg.backend, cfg.json)
    /\ UNCHANGED <<mvars, inputs, iovars, lvars, release, asset, steps, reads, tmpdir, net>>

JsonAsset(name, url) == [name |-> name, browser_download_url |-> url]
JsonRelease(tag, date, name, assets) ==
    [tag_name |-> tag, created_at |-> date, name |-> name, assets |-> assets]

GoodAssets == Some(<<JsonAsset(Some("bin-linux"), Some("u1"))>>)

\* release objects: complete ones, and one for each way of being incomplete
JsonReleases ==
    {JsonRelease(Some(<<"v", "1">>), Some("d"), Some("n"), GoodAssets),
     JsonRelease(Some(<<"1">>), Some("d"), NoneR, Some(<<>>)),
     JsonRelease(Some(<<"v", "v", "1">>), Some("d"), NoneR, GoodAssets),
     JsonRelease(NoneR, Some("d"), Some("n"), GoodAssets),
     JsonRelease(Some(<<"v", "1">>), NoneR, Some("n"), GoodAssets),
     JsonRelease(Some(<<"v", "1">>), Some("d"), Some("n"), NoneR),
     JsonRelease(Some(<<"v", "1">>), Some("d"), Some("n"),
                 Some(<<JsonAsset(Some("bin-linux"), Some("u1")), JsonAsset(NoneR, Some("u2"))>>)),
     JsonRelease(Some(<<"1">>), Some("d"), NoneR,
                 Some(<<JsonAsset(Some("bin-linux"), NoneR)>>))}

ParseInit ==
    /\ cfg \in [impl : {"parse"}, backend : {"github", "gitea"},
                json : {NoneR} \cup {Some(q) : q \in SeqsUpTo(JsonReleases, MaxReleases)}]
    /\ pc = "parse"
    /\ dl = DlIdle
    /\ ex = ExIdle
    /\ printed = <<>>
    /\ builder = NoBuilder
    /\ pages = <<>>
    /\ call = CallIdle
    /\ s3 = S3Idle
    /\ fs = [p \in Paths |-> Absent]
    /\ mv = MoveIdle
    /\ renames = <<>>
    /\ served = NoneR
    /\ stdin = <<>>
    /\ dest0 = Absent
    /\ release = NoneR
    /\ asset = NoneR
    /\ result = NoneR
    /\ steps = <<>>
    /\ reads = 0
    /\ tmpdir = "none"
    /\ net = <<>>

SpecParse == ParseInit /\ [][parse]_vars

(***************************************************************************)
(* signatures::verify and do_verify (signatures.rs 15-100).  A signed file  *)
(* is its length being enough for a header, its header carrying the magic   *)
(* bytes, and the signers of the signatures embedded in it; a key validates *)
(* a signature when it is a valid key and it is the signer's key.           *)
(***************************************************************************)
MaxSigs == 2

Signers == {1, 2, 3}

SignedFile(long, magic, sigs) == [long |-> long, magic |-> magic, sigs |-> sigs]

\* signatures.rs 47-100
do_verify(file, keys) ==
    IF ~file.long THEN IoErr("read_exact")
    ELSE IF ~file.magic THEN Err("NoValidSignature", "Signature header was not found")
    ELSE IF \E i \in DOMAIN keys, j \in DOMAIN file.sigs : keys[i].id = file.sigs[j]
         THEN Ok("()")
         ELSE Err("NoValidSignature", "do_verify")

\* signatures.rs 15-45, after the file was opened
verify(path, file, keys, zip, tar) ==
    IF keys = <<>> THEN Ok("()")
    ELSE IF \E i \in DOMAIN keys : ~keys[i].valid THEN Err("NoValidSignature", "from_bytes")
    ELSE LET archive_kind == detect_archive(path, zip, tar) IN
         IF IsErr(archive_kind) THEN archive_kind
         ELSE IF archive_kind.v.k = "Plain"
              THEN Panic("Can only check signatures for .zip and .tar* files.")
              ELSE do_verify(file, keys)

\* one call of verify on the downloaded archive
signatures_verify ==
    /\ pc = "verify"
    /\ pc' = "verified"
    /\ IF cfg.keys = <<>>
       THEN result' = verify(cfg.path, cfg.file, cfg.keys, cfg.zip, cfg.tar) /\ UNCHANGED steps
       ELSE \/ /\ \A i \in DOMAIN cfg.keys : cfg.keys[i].valid
               /\ IsOk(detect_archive(cfg.path, cfg.zip, cfg.tar))
               /\ result' = IoErr("File::open")
               /\ steps' = Append(steps, "open")
            \/ /\ result' = verify(cfg.path, cfg.file, cfg.keys, cfg.zip, cfg.tar)
               /\ steps' = IF \A i \in DOMAIN cfg.keys : cfg.keys[i].valid
                              /\ IsOk(detect_archive(cfg.path, cfg.zip, cfg.tar))
                           THEN Append(steps, "open") ELSE steps
    /\ UNCHANGED <<mvars, inputs, iovars, lvars, release, asset, reads, tmpdir, net>>

VerifyInit ==
    /\ cfg \in [impl : {"verify"}, keys : KeyLists, path : ArchiveNames, zip : BOOLEAN, tar : {TRUE},
                file : {SignedFile(l, m, s) : l \in BOOLEAN, m \in BOOLEAN,
                                              s \in SeqsUpTo(Signers, MaxSigs)}]
    /\ cfg.file.long \/ (~cfg.file.magic /\ cfg.file.sigs = <<>>)
    /\ pc = "verify"
    /\ dl = DlIdle
    /\ ex = ExIdle
    /\ printed = <<>>
    /\ builder = NoBuilder
    /\ pages = <<>>
    /\ call = CallIdle
    /\ s3 = S3Idle
    /\ fs = [p \in Paths |-> Absent]
    /\ mv = MoveIdle
    /\ renames = <<>>
    /\ served = NoneR
    /\ stdin = <<>>
    /\ dest0 = Absent
    /\ release = NoneR
    /\ asset = NoneR
    /\ result = NoneR
    /\ steps = <<>>
    /\ reads = 0
    /\ tmpdir = "none"
    /\ net = <<>>

SpecVerify == VerifyInit /\ [][signatures_verify]_vars

(***************************************************************************)
(* The transaction over pairs of versions whose bump is compatible and      *)
(* pairs whose bump is not.                                                 *)
(***************************************************************************)
CompatCurrent == {Ver(0, 1, 0), Ver(1, 0, 0), Ver(1, 1, 0)}
CompatLatest == {Ver(0, 1, 1), Ver(0, 2, 0), Ver(1, 1, 0), Ver(1, 2, 0), Ver(2, 0, 0)}

CompatCfgs ==
    [impl : {"github"}, target_version : {None, "tag"}, current_version : CompatCurrent,
     target : {Target0}, identifier : {NoneR}, no_confirm : {TRUE}, has_parent : {TRUE},
     keys : {<<>>}, install_is_exe : {TRUE}]
    \cup [impl : {"trait"}, target_version : {None, "tag"}, current_version : CompatCurrent,
          target : {Target0}, identifier : {NoneR}, no_confirm : BOOLEAN,
          has_parent : {TRUE}, keys : {<<>>, <<Key(1, TRUE)>>}, install_is_exe : {TRUE}]

CompatReleases ==
    {[version |-> v, assets |-> Assets(<<<<"b">>, <<"a", "b">>>>), signer |-> 1] : v \in CompatLatest}

CompatInit == UpdateInit(CompatCfgs, CompatReleases, {<<>>, <<"n">>})

SpecCompat == CompatInit /\ [][Next]_vars

(***************************************************************************)
(* The S3 listing of a bucket holding more keys than one response carries:  *)
(* pages[1] is the answer to the request of s3.rs 457-466 (the first        *)
(* max-keys keys), pages[2] what a continuation request would be answered.  *)
(***************************************************************************)
MaxPageKeys == 2

PagedKeys == {<<"t", "-", "1.0.0", "-", "a">>, <<"t", "-", "1.0.0", "-", "b">>,
              <<"t", "-", "v", "2.0.0", "-", "a">>, <<"p", "/", "readme">>}

S3PagedInit ==
    /\ cfg \in S3Cfgs
    /\ pages \in {<<[keys |-> k1], [keys |-> k2]>> :
                     k1 \in DistinctSeqs(PagedKeys, MaxPageKeys) \ {<<>>},
                     k2 \in DistinctSeqs(PagedKeys, MaxPageKeys) \ {<<>>}}
    /\ \A i \in DOMAIN pages[1].keys, j \in DOMAIN pages[2].keys : pages[1].keys[i] # pages[2].keys[j]
    /\ s3 = [pc |-> "request", i |-> 0, current |-> NoneR, releases |-> <<>>, ret |-> NoneR]
    /\ dl = DlIdle
    /\ ex = ExIdle
    /\ printed = <<>>
    /\ builder = NoBuilder
    /\ call = CallIdle
    /\ fs = [p \in Paths |-> Absent]
    /\ mv = MoveIdle
    /\ renames = <<>>
    /\ served = NoneR
    /\ stdin = <<>>
    /\ dest0 = Absent
    /\ pc = "idle"
    /\ release = NoneR
    /\ asset = NoneR
    /\ result = NoneR
    /\ steps = <<>>
    /\ reads = 0
    /\ tmpdir = "none"
    /\ net = <<>>

SpecS3Paged == S3PagedInit /\ [][S3Next]_vars

(***************************************************************************)
(* Extract of a source that is a single file (ArchiveKind::Plain): both    *)
(* entry points, on sources with and without a gz extension, in builds     *)
(* with and without compression-flate2.                                    *)
(***************************************************************************)
\* file names that detect_archive takes for a single file
PlainNames == {<<"temp">>, <<"temp", ".", "gz">>, <<"temp", ".", "txt", ".", "gz">>,
               <<"temp", ".", "exe">>, <<".", "gz">>}

\* PathBuf::set_extension(""): the file name without its extension
set_extension_empty(name) == file_stem(name)

\* lib.rs 333-338, 378-386: File::open, the archive kind, the dispatch
extract_into ==
    /\ ex.pc = "open"
    /\ \/ ExReturn(IoErr("File::open"))
       \/ LET archive == IF cfg.archive = NoneR THEN detect_archive(cfg.source, cfg.zip, cfg.tar)
                         ELSE Ok(cfg.archive.v) IN
          IF IsErr(archive) THEN ExReturn(archive)
          ELSE ex' = [ex EXCEPT !.pc = archive.v.k, !.op = "extract_into", !.kind = Some(archive.v)]
    /\ UNCHANGED <<mvars, inputs, dl, printed, lvars, pc, release, asset, result, steps, reads, tmpdir, net>>

\* lib.rs 342-363: the Plain arm writes the source under its own name less the
\* extension (a source path always has a file name here)
extract_into_plain ==
    /\ ex.pc = "Plain"
    /\ ex.op = "extract_into"
    /\ LET out_path == set_extension_empty(cfg.source)
           read == get_archive_reader(cfg.bytes, ex.kind.v.c, cfg.gz) IN
       \/ \E op \in {"create_dir_all", "File::create"} : ExReturn(IoErr(op))
       \/ ex' = [ex EXCEPT !.pc = "ret", !.ret = IoErr("copy"),
                           !.written = @ \cup {File(out_path, "partial")}]
       \/ /\ IsOk(read)
          /\ ex' = [ex EXCEPT !.pc = "ret", !.ret = Ok("()"),
                              !.written = @ \cup {File(out_path, read.v)}]
    /\ UNCHANGED <<mvars, inputs, dl, printed, lvars, pc, release, asset, result, steps, reads, tmpdir, net>>

\* a source named *.gz holds the gzip encoding of the payload, any other the payload
PlainInit ==
    /\ cfg \in [impl : {"extract"}, source : PlainNames, archive : {NoneR},
                zip : {TRUE}, tar : {TRUE}, gz : BOOLEAN, bytes : {Bytes("P"), Gzip(Bytes("P"))},
                entries : {<<>>}, file_to_extract : EntryNames]
    /\ cfg.bytes.gzip <=> extension(cfg.source) = Some(<<"gz">>)
    /\ ex = [ExIdle EXCEPT !.pc = "open"]
    /\ printed = <<>>
    /\ dl = DlIdle
    /\ pc = "idle"
    /\ builder = NoBuilder
    /\ pages = <<>>
    /\ call = CallIdle
    /\ s3 = S3Idle
    /\ fs = [p \in Paths |-> Absent]
    /\ mv = MoveIdle
    /\ renames = <<>>
    /\ served = NoneR
    /\ stdin = <<>>
    /\ dest0 = Absent
    /\ release = NoneR
    /\ asset = NoneR
    /\ result = NoneR
    /\ steps = <<>>
    /\ reads = 0
    /\ tmpdir = "none"
    /\ net = <<>>

PlainNext == extract_into \/ extract_into_plain \/ extract_file \/ extract_file_plain

SpecPlain == PlainInit /\ [][PlainNext]_vars

(***************************************************************************)
(* Move::to_dest on its own: every combination of the files being there.   *)
(***************************************************************************)
MoveInit ==
    /\ \E d \in {Absent, "old"}, s \in {Absent, "new", "partial"}, t \in {Absent, "stale", "old"} :
          fs = [p \in Paths |-> CASE p = "dest" -> d
                                  [] p = "source" -> s
                                  [] p = "temp" -> t
                                  [] OTHER -> Absent]
    /\ mv = from_source
    /\ renames = <<>>
    /\ cfg = [impl |-> "none"]
    /\ served = NoneR
    /\ stdin = <<>>
    /\ dest0 = fs["dest"]
    /\ pc = "idle"
    /\ release = NoneR
    /\ asset = NoneR
    /\ result = NoneR
    /\ steps = <<>>
    /\ reads = 0
    /\ tmpdir = "none"
    /\ net = <<>>
    /\ pages = <<>>
    /\ call = CallIdle
    /\ s3 = S3Idle
    /\ builder = NoBuilder
    /\ dl = DlIdle
    /\ ex = ExIdle
    /\ printed = <<>>

MoveNext ==
    \/ MoveReplaceUsingTemp \/ MoveToDest \/ MoveNoTemp
    \/ MoveDestToTemp \/ MoveSourceToDest \/ MoveRestore \/ MoveFresh

SpecMove == MoveInit /\ [][MoveNext]_vars


(***************************************************************************)
(* Properties of Move::to_dest (checked under SpecMove).                    *)
(***************************************************************************)
Did(from, to, ok) == \E i \in DOMAIN renames : renames[i] = <<from, to, ok>>
Tried(from, to) == Did(from, to, TRUE) \/ Did(from, to, FALSE)
MoveReturned == mv.pc = "ret"
\* to_dest was called with a temp path on a dest that exists
BackupCase == mv.pc \in {"start", "s2d", "restore", "ret"} /\ mv.temp # None /\ mv.d0 # Absent

\* C1: with a temp path and an existing dest, when dest->temp succeeded and
\* source->dest failed, to_dest has put the original content back at dest when
\* it returns, and returns the error of the failed source->dest rename.
C1_RestoreThenOriginalError ==
    (MoveReturned /\ BackupCase /\ Did("dest", "temp", TRUE) /\ Did("source", "dest", FALSE))
        => (fs["dest"] = mv.d0 /\ mv.ret = IoErr(RenameOp("source", "dest")))

\* C2: with a temp path and an existing dest, once to_dest has returned (Ok or
\* Err, whichever rename failed) dest exists and holds the whole original or
\* the whole new content.
C2_DestNeverMissingAfterReturn ==
    (MoveReturned /\ BackupCase) => (fs["dest"] # Absent /\ fs["dest"] \in {mv.d0, mv.s0})

\* C3 as claimed: at every point of the protocol on an existing dest, the
\* install path holds the whole old or the whole new binary (never absent).
C3_NeverAbsentDuringProtocol ==
    BackupCase => (fs["dest"] # Absent /\ fs["dest"] \in {mv.d0, mv.s0})

\* C3 as amended: at every point of the protocol on an existing dest, the
\* install path holds the whole old binary, the whole new binary, or nothing;
\* it is absent exactly from the dest->temp rename until the next rename that
\* succeeds, and while it is absent the whole old binary is at the temp path.
C3_OldNewOrParkedAtTemp ==
    BackupCase =>
        /\ fs["dest"] \in {mv.d0, mv.s0, Absent}
        /\ fs["dest"] = Absent =>
              /\ fs["temp"] = mv.d0
              /\ mv.pc \in {"s2d", "restore"} \/ (MoveReturned /\ Did("temp", "dest", FALSE))
        /\ mv.pc \in {"s2d", "restore"} => fs["dest"] = Absent

\* C3 witness: between the two renames the install path is absent and the old
\* binary sits at the temp path.
C3_Witness ==
    BackupCase /\ mv.pc = "s2d" /\ fs["dest"] = Absent /\ fs["temp"] = mv.d0

(***************************************************************************)
(* Properties of the update transaction (checked under Spec).               *)
(***************************************************************************)
Started(step) == \E i \in DOMAIN steps : steps[i] = step
Sent(req) == \E i \in DOMAIN net : net[i] = req
Done == pc = "done"
IsPrefix(a, b) == Len(a) <= Len(b) /\ SubSeq(b, 1, Len(a)) = a
StatusIs(r, st) == IsOk(r) /\ r.v.status = st
TmpEmpty == \A p \in TmpPaths : fs[p] = Absent

\* the step an error comes from
StepOf(op) ==
    CASE op \in {"get_latest_release", "get_release_version", "parse latest", "parse current"}
             -> "resolve"
      [] op = "asset_for" -> "select"
      [] op \in {"read_line", "confirm"} -> "confirm"
      [] op \in {"TempDir::new", "File::create", "download_to"} -> "download"
      [] op = "extract_file" -> "extract"
      [] op \in {"read signature", "open exe", "verify"} -> "verify"
      [] OTHER -> "replace"

\* the steps of a run that goes all the way, for the configuration at hand
ExpectedSteps ==
    <<"resolve", "select">>
    \o (IF cfg.no_confirm THEN <<>> ELSE <<"confirm">>)
    \o <<"download", "extract">>
    \o (IF cfg.impl = "trait" /\ cfg.keys # <<>> THEN <<"verify">> ELSE <<>>)
    \o <<"replace">>

\* C4: a run that fails before the replace step returns an error, and the
\* install path holds what it held; only the replace step writes it.
C4_FailureBeforeReplaceIsErrorAndUntouched ==
    /\ (Done /\ ~Started("replace") /\ ~IsOk(result)) => IsErr(result)
    /\ ~Started("replace") => fs["dest"] = dest0

\* C5: without a target version tag, when the latest release is not strictly
\* greater than the current version, update() returns UpToDate(current
\* version) and has done nothing else: no prompt, no temp dir or file, no
\* download, no extraction, no replacement.
NotNewer ==
    /\ cfg.target_version = None
    /\ cfg.current_version.parses
    /\ served.version.parses
    /\ ~VerGT(served.version.num, cfg.current_version.num)

C5_UpToDateShortCircuit ==
    (Done /\ NotNewer /\ ~(IsErr(result) /\ result.op = "get_latest_release")) =>
        /\ result = Ok([status |-> "UpToDate", version |-> cfg.current_version])
        /\ steps = <<"resolve">>
        /\ net = <<"latest">>
        /\ reads = 0
        /\ tmpdir = "none"
        /\ TmpEmpty
        /\ renames = <<>>
        /\ fs["dest"] = dest0

\* C5 witness: the latest version equals the current one and UpToDate came back.
C5_Witness ==
    /\ Done /\ NotNewer
    /\ served.version = cfg.current_version
    /\ StatusIs(result, "UpToDate")

\* C6: with verifying keys configured, when no configured key validates the
\* artifact's signature, update() returns NoValidSignature and the replace
\* step is never executed (the install path keeps the old binary).
NoKeyValidates ==
    /\ cfg.keys # <<>>
    /\ \A i \in DOMAIN cfg.keys : ~(cfg.keys[i].valid /\ cfg.keys[i].id = served.signer)

C6_NoValidSignatureBlocksReplace ==
    (Done /\ Started("verify") /\ NoKeyValidates
          /\ ~(IsErr(result) /\ result.op \in {"read signature", "open exe"})) =>
        /\ result = Err("NoValidSignature", "verify")
        /\ ~Started("replace")
        /\ fs["dest"] = dest0

\* C7: the steps run in the fixed order, each at most once, as a prefix of
\* the full sequence; the first failure ends the run with that error; Updated
\* comes only after the replace step succeeded; every call ends in UpToDate,
\* Updated or an error.
C7_StepsInOrderOneOutcome ==
    /\ IsPrefix(steps, ExpectedSteps)
    /\ ~Done => result = NoneR
    /\ Done => (IsOk(result) \/ IsErr(result))
    /\ IsErr(result) => steps # <<>> /\ StepOf(result.op) = steps[Len(steps)]
    /\ StatusIs(result, "UpToDate") => steps = <<"resolve">>
    /\ StatusIs(result, "Updated") =>
          /\ steps = ExpectedSteps
          /\ IF cfg.impl = "github" THEN IsOk(mv.ret) ELSE fs[SelfPath] = "new"

(***************************************************************************)
(* The confirmation prompt (checked under SpecConfirm).                     *)
(***************************************************************************)
Blank(l) == \A i \in DOMAIN l : l[i] = " "
Upper(c) == IF c = "y" THEN "Y" ELSE IF c = "e" THEN "E" ELSE IF c = "s" THEN "S" ELSE c
\* l is the word w, in either case, with white space around it
IsWord(l, w) ==
    \E i \in 1..Len(l) :
        /\ i + Len(w) - 1 <= Len(l)
        /\ \A k \in 1..(i - 1) : l[k] = " "
        /\ \A k \in (i + Len(w))..Len(l) : l[k] = " "
        /\ \A k \in 1..Len(w) : l[i + k - 1] \in {w[k], Upper(w[k])}

Prompted == Started("confirm") /\ result # IoErr("read_line")
Aborted == result = Err("Update", "confirm")
SkipsPrompt == cfg.no_confirm => (reads = 0 /\ ~Started("confirm"))

\* C8 as claimed: the prompt lets the update continue exactly when the line
\* is blank, "y" or "yes"; anything else aborts with an Update error; with
\* no_confirm the prompt is skipped and standard input is not read.
C8_AcceptsBlankYOrYes ==
    /\ Prompted =>
          /\ ~Aborted <=> (Blank(stdin) \/ IsWord(stdin, <<"y">>) \/ IsWord(stdin, <<"y", "e", "s">>))
          /\ Aborted => Done
          /\ ~Aborted => Started("download") \/ pc = "download"
    /\ SkipsPrompt

\* C8 as amended: the prompt lets the update continue exactly when the line,
\* without the white space around it and in lower case, is empty or "y"
\* ("yes" aborts like any other input); with no_confirm the prompt is
\* skipped and standard input is not read.
C8_AcceptsBlankOrY ==
    /\ Prompted =>
          /\ ~Aborted <=> (Blank(stdin) \/ IsWord(stdin, <<"y">>))
          /\ Aborted => Done /\ steps[Len(steps)] = "confirm" /\ reads = 1
          /\ ~Aborted => Started("download") \/ pc = "download"
    /\ SkipsPrompt

\* C8 witness: the user typed "yes" and the update was aborted.
C8_Witness == Prompted /\ stdin = <<"y", "e", "s">> /\ Aborted /\ Done

(***************************************************************************)
(* Asset selection (checked under SpecAsset).                               *)
(***************************************************************************)
NameHasTargetAndIdentifier(a) ==
    /\ Contains(a.name, cfg.target)
    /\ cfg.identifier.tag = "Some" => Contains(a.name, cfg.identifier.v)
Matching == {i \in DOMAIN served.assets : NameHasTargetAndIdentifier(served.assets[i])}

\* C9: asset selection yields the first asset, in list order, whose name
\* contains the target (and the identifier when one is configured); when no
\* asset matches it yields none and update() fails with a Release error
\* before anything is downloaded.
C9_FirstMatchingAssetOrReleaseError ==
    Started("select") =>
        IF Matching = {}
        THEN /\ asset = NoneR
             /\ Done /\ result = Err("Release", "asset_for")
             /\ steps = <<"resolve", "select">>
             /\ ~Sent("download") /\ tmpdir = "none" /\ TmpEmpty /\ fs["dest"] = dest0
        ELSE /\ \E i \in Matching : asset = Some(served.assets[i]) /\ \A j \in Matching : i <= j
             /\ result # Err("Release", "asset_for")

\* C9 witness: two assets match, with different urls, and the earlier one
\* was selected and the update went on.
C9_Witness ==
    /\ Started("select")
    /\ Cardinality(Matching) >= 2
    /\ \E i \in Matching : asset = Some(served.assets[i]) /\ \A j \in Matching : i <= j
    /\ pc # "done"

(***************************************************************************)
(* The paginated listing (checked under SpecFetch).                         *)
(***************************************************************************)
RECURSIVE PagesUpTo(_)
PagesUpTo(n) == IF n = 0 THEN <<>> ELSE PagesUpTo(n - 1) \o pages[n].releases
AllListed == PagesUpTo(Len(pages))
HasTarget(r) == \E i \in DOMAIN r.assets : Contains(r.assets[i].name, cfg.target.v)
Fetched == call.pc = "done" /\ IsOk(result)

\* C10: for a backend answering with a chain of n pages linked by rel="next"
\* headers, fetch returns the releases of pages 1..n concatenated in page
\* order, each exactly once (those with a target asset when a target is
\* set), having requested pages 1..n once each and nothing after page n.
C10_AllPagesConcatenated ==
    Fetched =>
        /\ result.v = (IF cfg.target.tag = "None" THEN AllListed
                       ELSE SelectSeq(AllListed, HasTarget))
        /\ net = [k \in 1..Len(pages) |-> k]

(***************************************************************************)
(* The S3 backend (checked under SpecS3).                                   *)
(***************************************************************************)
Parsable(rels) == {i \in DOMAIN rels : Version_parse(rels[i].version).parses}
NumOf(r) == Version_parse(r.version).num
LatestDone == s3.pc = "done" /\ cfg.op = "latest" /\ IsOk(s3.ret) /\ s3.ret.v # <<>>

\* C11: S3 get_latest_release returns, among the listed releases, one whose
\* version is greatest under semver, whatever the order of the listing; a
\* release whose version does not parse is never the result while a
\* parsable one exists and does not change the choice, and a parse failure
\* never makes the call fail.
C11_LatestIsGreatestParsable ==
    LatestDone =>
        /\ IsOk(result)
        /\ Parsable(s3.ret.v) # {} =>
              \E i \in Parsable(s3.ret.v) :
                 /\ result.v = s3.ret.v[i]
                 /\ \A j \in Parsable(s3.ret.v) : ~VerGT(NumOf(s3.ret.v[j]), NumOf(s3.ret.v[i]))

\* the keys read so far, and the list they have produced
KeysRead == IF s3.pc = "read" THEN SubSeq(pages[1].keys, 1, s3.i - 1) ELSE pages[1].keys
ListSoFar == flush(s3.releases, s3.current)
PairOf(k) == captures(k).v
MatchingRead == {n \in DOMAIN KeysRead : captures(KeysRead[n]).tag = "Some"}
KeysOfPair(pr) == {KeysRead[n] : n \in {m \in MatchingRead : PairOf(KeysRead[m]) = pr}}
Reading == s3.pc = "read" \/ (s3.pc \in {"listed", "done"} /\ IsOk(s3.ret))

\* C12: after the listing has processed any sequence of keys, the list holds
\* exactly one Release per distinct (name, version) pair among the keys that
\* match the naming convention, with one asset for every matching key of
\* the pair (none lost, none duplicated); a key that does not match adds
\* no release and no asset.
C12_OneReleasePerPairAllAssets ==
    Reading =>
        /\ \A n \in MatchingRead :
              Cardinality({m \in DOMAIN ListSoFar :
                              /\ ListSoFar[m].name = PairOf(KeysRead[n]).name
                              /\ ListSoFar[m].version = PairOf(KeysRead[n]).version}) = 1
        /\ \A m \in DOMAIN ListSoFar :
              LET r == ListSoFar[m]
                  ks == KeysOfPair([name |-> r.name, version |-> r.version])
              IN  /\ ks # {}
                  /\ {r.assets[a].download_url : a \in DOMAIN r.assets} = ks
                  /\ Len(r.assets) = Cardinality(ks)
                  /\ \A a \in DOMAIN r.assets : r.assets[a].name = file_name(r.assets[a].download_url)

\* C12 witness: two keys of one pair were merged into a Release with two
\* assets while a key outside the convention was read and another pair
\* is listed.
C12_Witness ==
    /\ s3.pc = "listed" /\ IsOk(s3.ret)
    /\ \E m \in DOMAIN s3.ret.v : Len(s3.ret.v[m].assets) = 2
    /\ Cardinality(MatchingRead) < Len(KeysRead)

(***************************************************************************)
(* UpdateBuilder::build (checked under SpecBuild).                          *)
(***************************************************************************)
IsSet(x) == builder.f[x].tag = "Some"
Built == result # NoneR

\* repo or bucket identity, bin name, current version
NamedRequired(b) ==
    (CASE b = "github" -> {"repo_owner", "repo_name"}
       [] b = "gitea" -> {"host", "repo_owner", "repo_name"}
       [] OTHER -> {"bucket_name", "region"})
    \cup {"bin_name", "current_version"}

\* what build() needs on each backend: GitHub wants the target as well
Needed(b) == NamedRequired(b) \cup (IF b = "github" THEN {"target"} ELSE {})

\* the built Update carries the builder's values and has no hole
CarriesBuilder(u) ==
    /\ \A x \in BuilderFields(builder.backend) : IsSet(x) => u[x] = builder.f[x]
    /\ \A x \in DOMAIN u : x # "target_version" => u[x].tag = "Some"

Rank(v) == (v.num[1] * (MaxNum + 2) + v.num[2]) * (MaxNum + 2) + v.num[3]
Compared == pc = "compared"

\* C14: for valid semver pairs the check is true exactly when latest is
\* strictly greater than current (false for equal versions, never true in
\* both directions); when either string is not semver it returns a
\* version-parse error and does not panic.
C14_StrictlyGreaterOrParseError ==
    Compared =>
        IF cfg.current_version.parses /\ cfg.latest.parses
        THEN /\ IsOk(result)
             /\ result.v <=> Rank(cfg.latest) > Rank(cfg.current_version)
             /\ cfg.latest = cfg.current_version => ~result.v
             /\ ~(result.v /\ bump_is_greater(cfg.latest, cfg.current_version).v)
        ELSE IsErr(result) /\ result.kind = "SemVer"

\* C14 witness: two versions with the same major number, the latest with the
\* greater minor and the smaller patch, compared as greater.
C14_Witness ==
    /\ Compared
    /\ cfg.current_version = Ver(1, 0, 2) /\ cfg.latest = Ver(1, 1, 0)
    /\ result = Ok(TRUE)

(***************************************************************************)
(* A configured tag the backend does not hold (checked under SpecTag).       *)
(***************************************************************************)
TagAbsent == cfg.target_version \notin HeldTags
\* the backend was reached and gave its answer
Answered == Done /\ ~(IsErr(result) /\ result.kind = "Reqwest") /\ result.op # "fetch_releases_from_s3"
NothingWritten == fs["dest"] = dest0 /\ TmpEmpty /\ tmpdir = "none" /\ net = <<"tag">>

\* C15: with a target tag configured and no release for it on the backend,
\* update() fails with a Release-kind error on GitHub, Gitea and S3 alike,
\* and nothing has been downloaded or written to disk.
C15_AbsentTagIsReleaseError ==
    (TagAbsent /\ Answered) =>
        /\ IsErr(result) /\ result.kind = "Release"
        /\ NothingWritten

(***************************************************************************)
(* The temporary directory after update() has returned (checked under Spec). *)
(***************************************************************************)
\* update() returned a value: a status or an error
Returned == Done /\ (IsOk(result) \/ IsErr(result))
\* the call got past the creation of the TempDir
CreatedTmp ==
    /\ Started("download")
    /\ ~(IsErr(result) /\ result.op = "TempDir::new")

\* C16: once update() has returned on a path that created the temporary
\* directory (Updated, or an error from download, extraction, verification
\* or replace), the directory and every file in it no longer exist.
C16_TempDirGoneAfterReturn ==
    (Returned /\ CreatedTmp) => (tmpdir = "removed" /\ TmpEmpty)

\* C16 witness: the GitHub update replaced an existing binary, whose backup
\* was parked inside the temporary directory, and returned Updated.
C16_Witness ==
    /\ Returned /\ CreatedTmp
    /\ cfg.impl = "github" /\ dest0 = "old"
    /\ StatusIs(result, "Updated")
    /\ \E i \in DOMAIN renames : renames[i] = <<"dest", "temp", TRUE>>

(***************************************************************************)
(* Failures are values (checked under Spec).                                 *)
(***************************************************************************)
\* C17: every failure of the update path is returned to the caller as a
\* typed error and never aborts the process: an install path without a
\* parent directory and a configured verifying key that is not a valid key
\* each end the call with an error result, not with a panic.
C17_FailuresAreErrorsNotPanics ==
    Done => /\ result.tag \in {"Ok", "Err"}
            /\ (cfg.impl = "github" /\ ~cfg.has_parent /\ Started("download")) => IsErr(result)
            /\ (Started("verify") /\ NoKeyValidates) => IsErr(result)

(***************************************************************************)
(* A download answered with a non-success status (checked under             *)
(* SpecDownload).                                                            *)
(***************************************************************************)
\* download_to returned after a response whose status is not a success
RefusedDownload == dl.pc = "ret" /\ dl.status # 0 /\ ~is_success(dl.status)

\* C18: download_to fails with a Network-kind error whenever the response
\* status is not a success status, and then no byte of the body has been
\* written to the caller's sink.
C18_NonSuccessIsNetworkErrorEmptySink ==
    RefusedDownload => /\ IsErr(dl.ret) /\ dl.ret.kind = "Network"
                       /\ dl.sink = <<>>

(***************************************************************************)
(* A named entry the archive does not hold (checked under SpecExtract).      *)
(***************************************************************************)
\* extract_file returned after looking for an entry a Tar or Zip archive lacks
MissingEntry ==
    /\ ex.pc = "ret"
    /\ ex.kind # NoneR /\ ex.kind.v.k \in {"Tar", "Zip"}
    /\ entries_named(cfg.entries, cfg.file_to_extract) = {}
    /\ ~(IsErr(ex.ret) /\ ex.ret.op \in {"entries", "ZipArchive::new"})

\* C19: extract_file on a Tar or a Zip archive without the named entry fails
\* with an Update-kind error for both kinds, writes no file for the entry
\* into the destination directory and never reports success.
C19_MissingEntryIsUpdateError ==
    MissingEntry => /\ IsErr(ex.ret) /\ ex.ret.kind = "Update"
                    /\ \A f \in ex.written : f.name # cfg.file_to_extract

(***************************************************************************)
(* The classification of file names (checked under SpecDetect).             *)
(***************************************************************************)
\* name is a non-empty stem followed by the dotted suffix, e.g. <<".", "zip">>
EndsWith(name, suffix) ==
    /\ Len(name) > Len(suffix)
    /\ SubSeq(name, Len(name) - Len(suffix) + 1, Len(name)) = suffix

\* the kind the extension chain of a name stands for
KindOf(name) ==
    IF EndsWith(name, <<".", "zip">>) THEN Zip
    ELSE IF EndsWith(name, <<".", "tar">>) THEN Tar("None")
    ELSE IF EndsWith(name, <<".", "tar", ".", "gz">>) THEN Tar("Gz")
    ELSE IF EndsWith(name, <<".", "gz">>) THEN Plain("Gz")
    ELSE Plain("None")

\* the archive feature the kind needs is built in
Enabled(kind) ==
    CASE kind.k = "Zip" -> cfg.zip
      [] kind.k = "Tar" -> cfg.tar
      [] OTHER -> TRUE

Detected == pc = "detected"

\* C20: detect_archive classifies a file name by its extension chain only:
\* zip gives Zip, tar gives Tar(none), gz directly above tar gives Tar(gzip),
\* gz above anything else gives Plain(gzip), every other name gives
\* Plain(none); when the archive feature the kind needs is not built in, the
\* result is the ArchiveNotEnabled error instead.
C20_KindByExtensionChain ==
    Detected =>
        IF Enabled(KindOf(cfg.path)) THEN result = Ok(KindOf(cfg.path))
        ELSE IsErr(result) /\ result.kind = "ArchiveNotEnabled"

\* C20 witness: a gz on top of a repeated tar extension is a gzipped tar.
C20_Witness ==
    /\ Detected
    /\ cfg.path = <<"a", ".", "tar", ".", "gz">> \/ cfg.path = <<"tar", ".", "tar", ".", "gz">>
    /\ cfg.tar
    /\ result = Ok(Tar("Gz"))

(***************************************************************************)
(* Release objects of a listing (checked under SpecParse).                   *)
(***************************************************************************)
Parsed == pc = "parsed" /\ cfg.json # NoneR
Incomplete(r) ==
    \/ r.tag_name = NoneR \/ r.created_at = NoneR \/ r.assets = NoneR
    \/ \E i \in DOMAIN r.assets.v :
          r.assets.v[i].name = NoneR \/ r.assets.v[i].browser_download_url = NoneR
\* tag_name without one leading v
StripLeadingV(t) == IF t # <<>> /\ Head(t) = "v" THEN Tail(t) ELSE t
VersionOfParsed(rel) == IF cfg.backend = "github" THEN version(rel) ELSE rel.version

\* what the release object asks of the parsed release, the version left aside
ParsedFrom(rel, r) ==
    /\ rel.name = (IF r.name = NoneR THEN r.tag_name.v ELSE r.name.v)
    /\ Len(rel.assets) = Len(r.assets.v)
    /\ \A i \in DOMAIN rel.assets :
          rel.assets[i] = Asset(r.assets.v[i].name.v, r.assets.v[i].browser_download_url.v)

\* C21: parsing a GitHub/Gitea release object fails with a Release-kind
\* error when tag_name, created_at or assets is missing or an asset lacks its
\* name or download url, and one failing release fails the whole listing; on
\* success the name defaults to the tag and the version is tag_name with a
\* leading v stripped.
C21_IncompleteReleaseFailsListing ==
    Parsed =>
        IF \E i \in DOMAIN cfg.json.v : Incomplete(cfg.json.v[i])
        THEN IsErr(result) /\ result.kind = "Release"
        ELSE /\ IsOk(result) /\ Len(result.v) = Len(cfg.json.v)
             /\ \A i \in DOMAIN result.v :
                   /\ ParsedFrom(result.v[i], cfg.json.v[i])
                   /\ VersionOfParsed(result.v[i]) = StripLeadingV(cfg.json.v[i].tag_name.v)

(***************************************************************************)
(* Signature verification of an artifact (checked under SpecVerify).         *)
(***************************************************************************)
\* verify returned or panicked, the file having been there to open
Verified == pc = "verified" /\ result # IoErr("File::open")
\* a configured key validates an embedded signature
SomeKeyValidates ==
    /\ cfg.file.long /\ cfg.file.magic
    /\ \E i \in DOMAIN cfg.keys, j \in DOMAIN cfg.file.sigs :
          cfg.keys[i].valid /\ cfg.keys[i].id = cfg.file.sigs[j]

\* C22: verification succeeds exactly when no verifying keys are configured
\* (and then the artifact is not inspected) or some configured key validates
\* some embedded signature over the content; in every other case, a missing
\* magic header included, it fails with NoValidSignature.
C22_SucceedsIffNoKeysOrSomeKeyValidates ==
    Verified =>
        IF cfg.keys = <<>> THEN IsOk(result) /\ steps = <<>>
        ELSE IF SomeKeyValidates THEN IsOk(result)
        ELSE IsErr(result) /\ result.kind = "NoValidSignature"

(***************************************************************************)
(* Compatibility of the bump does not steer the update (checked under       *)
(* SpecCompat).                                                             *)
(***************************************************************************)
\* the latest release is strictly newer than the version v
Newer(v) == v.parses /\ served.version.parses /\ VerGT(served.version.num, v.num)
\* the versions a run may have as current_version in place of its own, the
\* bump being compatible in one of the two runs and incompatible in the other
Twins ==
    {v \in AllVersions :
        /\ Newer(v)
        /\ bump_is_compatible(v, served.version) # bump_is_compatible(cfg.current_version, served.version)}

\* C23: two runs of update() that differ only in whether the bump to a
\* strictly greater latest version is compatible take the same steps, leave
\* the same content at the install path and return the same status:
\* every step of one run is a step of the other, with the same effect on
\* everything but the printed message.
C23_CompatibilityOnlyPrinted ==
    [][(cfg.target_version = None /\ Newer(cfg.current_version)) =>
          \A v \in Twins :
             /\ Resolve => ResolveCore(v)
             /\ (pc' = "done" /\ IsOk(result')) =>
                   result' = Ok(into_status(Updated(served), v))]_vars

\* C23 witness: an incompatible bump went through to Updated, and a current
\* version whose bump to the same release is compatible exists.
C23_Witness ==
    /\ Done /\ StatusIs(result, "Updated")
    /\ cfg.target_version = None
    /\ printed = <<"*NOT* ">>
    /\ Twins # {}
    /\ fs["dest"] = "new"

(***************************************************************************)
(* Move::to_dest on a dest that is not there (checked under SpecMove).       *)
(***************************************************************************)
\* to_dest was called with a temp path on a dest that does not exist
FreshCase == mv.pc \in {"start", "ret"} /\ mv.temp # None /\ mv.d0 = Absent

\* C24: to_dest with a temp path, when dest does not exist, performs the
\* one rename source->dest, neither creates nor modifies the temp path, and
\* when that rename fails leaves source in place and dest absent.
C24_FreshDestOneRename ==
    /\ [](FreshCase =>
            /\ \A i \in DOMAIN renames : renames[i][1] = "source" /\ renames[i][2] = "dest"
            /\ Len(renames) <= 1
            /\ MoveReturned =>
                  /\ Len(renames) = 1
                  /\ IsErr(mv.ret) => fs["source"] = mv.s0 /\ fs["dest"] = Absent /\ ~renames[1][3]
                  /\ IsOk(mv.ret) => fs["dest"] = mv.s0 /\ renames[1][3])
    /\ [][FreshCase => fs'["temp"] = fs["temp"]]_vars

\* C24 witness: the rename of an existing source onto the absent dest failed
\* while a stale file sat at the temp path.
C24_Witness ==
    /\ FreshCase /\ MoveReturned
    /\ mv.s0 = "new" /\ fs["temp"] = "stale"
    /\ IsErr(mv.ret)
    /\ renames = <<<<"source", "dest", FALSE>>>>

(***************************************************************************)
(* A bucket of more than one listing page (checked under SpecS3Paged).       *)
(***************************************************************************)
\* the keys of every page that follow the naming convention
BucketKeys ==
    {k \in UNION {{pages[n].keys[i] : i \in DOMAIN pages[n].keys} : n \in DOMAIN pages} :
        captures(k).tag = "Some"}
\* the call returned without a transport or parse failure of the listing
S3Answered == s3.pc = "done" /\ IsOk(s3.ret)
HoldsKey(rels, k) ==
    \E i \in DOMAIN rels : \E j \in DOMAIN rels[i].assets : rels[i].assets[j].download_url = k

\* C25: for a bucket whose matching keys span more than one listing page,
\* the returned releases, the release chosen by get_latest_release and the
\* one found by get_release_version take the keys of every page into
\* account, not only those of the first response.
C25_EveryPageOfTheBucket ==
    S3Answered =>
        /\ (cfg.op = "fetch" /\ cfg.target.tag = "None") =>
              \A k \in BucketKeys : HoldsKey(result.v, k)
        /\ cfg.op = "version" =>
              ((\E k \in BucketKeys : captures(k).v.version = cfg.target_version)
                  => IsOk(result) /\ result.v.version = cfg.target_version)
        /\ cfg.op = "latest" =>
              (BucketKeys # {} =>
                  /\ IsOk(result)
                  /\ \A k \in BucketKeys :
                        ~VerGT(Version_parse(captures(k).v.version).num, NumOf(result.v)))

(***************************************************************************)
(* C26: a single-file source is written as one file, named after the       *)
(* source less its outermost extension (extract_into) or after the file    *)
(* name of the asked entry (extract_file), holding the decompressed source. *)
(***************************************************************************)
PlainDone == ex.pc = "ret" /\ IsOk(ex.ret) /\ ex.kind /= NoneR /\ ex.kind.v.k = "Plain"

\* the name up to its last dot, a leading dot not counting
OuterStripped(name) ==
    LET dots == {i \in 2..Len(name) : name[i] = "."} IN
    IF dots = {} THEN name
    ELSE SubSeq(name, 1, (CHOOSE i \in dots : \A j \in dots : j <= i) - 1)

Decompressed(bytes) == [gzip |-> FALSE, payload |-> bytes.payload]

PlainNamedRight ==
    PlainDone =>
        /\ Cardinality(ex.written) = 1
        /\ \A f \in ex.written :
              /\ ex.op = "extract_into" => f.name = OuterStripped(cfg.source)
              /\ ex.op = "extract_file" => f.name = cfg.file_to_extract[Len(cfg.file_to_extract)]

\* C26: after a successful Plain extraction exactly one file is written, under
\* the name the entry point prescribes, and it holds the decompressed content
\* of the source
C26_PlainWritesDecompressedFile ==
    /\ PlainNamedRight
    /\ PlainDone => \A f \in ex.written : f.content = Decompressed(cfg.bytes)

(***************************************************************************)
(* C27: the target filter of ReleaseList::fetch (checked under SpecFetch).  *)
(***************************************************************************)
\* the full listing: the releases of the pages the requests brought, in order
RECURSIVE ReleasesOf(_)
ReleasesOf(urls) ==
    IF urls = <<>> THEN <<>>
    ELSE ReleasesOf(SubSeq(urls, 1, Len(urls) - 1)) \o pages[urls[Len(urls)]].releases
FullListing == ReleasesOf(net)

\* the places of the full listing whose release has an asset naming the target
Kept == {i \in DOMAIN FullListing : HasTarget(FullListing[i])}
KeptAt(k) == CHOOSE i \in Kept : Cardinality({j \in Kept : j <= i}) = k

\* C27: with a target, fetch returns exactly the releases of the full listing
\* that have an asset whose name contains the target, in their order in the
\* listing; without a target it returns the full listing as it is
C27_FilterKeepsExactlyTargetReleases ==
    Fetched =>
        IF cfg.target.tag = "None" THEN result.v = FullListing
        ELSE /\ Len(result.v) = Cardinality(Kept)
             /\ \A k \in 1..Len(result.v) : result.v[k] = FullListing[KeptAt(k)]

\* C27 witness: a filtered fetch over two pages dropped a release that stood
\* between two it kept
C27_Witness ==
    /\ Fetched
    /\ cfg.target.tag = "Some"
    /\ Len(net) >= 2
    /\ Len(result.v) >= 2
    /\ \E i, j \in Kept : \E d \in DOMAIN FullListing : i < d /\ d < j /\ d \notin Kept

(***************************************************************************)
(* C28: bin_path_in_archive follows bin_name until the caller gives a path  *)
(* (checked under SpecBuild).                                               *)
(***************************************************************************)
BuiltOk == result # NoneR /\ IsOk(result)

\* a bin_name call on a builder whose path the caller gave leaves the path
GivenPathKept ==
    [][builder.path_given /\ builder'.f["bin_name"] # builder.f["bin_name"]
          => builder'.f["bin_path_in_archive"] = builder.f["bin_path_in_archive"]]_vars

DefaultPathIsFinalName ==
    (BuiltOk /\ ~builder.path_given) =>
        result.v["bin_path_in_archive"] = result.v["bin_name"]

\* C28: an Update built from a builder whose bin_path_in_archive was never
\* given by the caller has bin_path_in_archive equal to its final bin_name,
\* however often bin_name was called; and a later bin_name call never
\* overwrites a path the caller gave
C28_ArchivePathDefaultsToFinalBinName ==
    []DefaultPathIsFinalName /\ GivenPathKept

(***************************************************************************)
(* C29: the paginated listing ends, page after page (checked under          *)
(* SpecFetchLive; the chains served are finite and without cycles).          *)
(***************************************************************************)
FetchEnded == call.pc = "done"

\* the requests so far went to pages 1, 2, ... in order, none twice
OnePageAtATime == net = [k \in 1..Len(net) |-> k]

\* a request is sent only when every request before it was answered with a page
NextOnlyAfterSuccess ==
    [][net' # net => ~IsErr(call.ret) /\ Len(call.frames) = Len(net)]_vars

\* a fetch that succeeded asked for every url of the chain
WholeChainRequested == (FetchEnded /\ IsOk(result)) => Len(net) = Len(pages)

\* once a page has failed nothing more is requested and the fetch ends in that error
FailureIsTheResult ==
    /\ [][IsErr(call.ret) => net' = net /\ call'.ret = call.ret]_vars
    /\ [](FetchEnded /\ IsErr(call.ret) => result = call.ret)

\* C29: every fetch ends; pages are asked for one at a time and in chain
\* order, the next only after the one before was received, each url of the
\* chain exactly once; a failure on a page is the result of the whole fetch
C29_ListingTerminatesPageByPage ==
    /\ <>FetchEnded
    /\ []OnePageAtATime
    /\ NextOnlyAfterSuccess
    /\ []WholeChainRequested
    /\ FailureIsTheResult

\* the same without the demand that the whole chain is asked for
ListingEndsPageByPage ==
    /\ <>FetchEnded
    /\ []OnePageAtATime
    /\ NextOnlyAfterSuccess
    /\ FailureIsTheResult

(***************************************************************************)
(* C30: with a target version tag the versions are not compared (checked    *)
(* under Spec).                                                             *)
(***************************************************************************)
TagAsked == cfg.target_version = "tag"

\* the tagged release is not newer than the running version, or the running
\* version is no semver at all
NothingNewer ==
    \/ ~cfg.current_version.parses
    \/ ~served.version.parses
    \/ ~VerGT(served.version.num, cfg.current_version.num)

\* the step after the lookup of the tag is the choice of the asset, unless the
\* lookup itself failed
TagGoesOnToSelect ==
    [][(TagAsked /\ pc = "resolve") =>
          \/ pc' = "select" /\ release' = Some(served)
          \/ pc' = "done" /\ IsErr(result') /\ result'.op = "get_release_version"]_vars

\* no answer of a tagged update comes from a comparison of versions
TagNeverCompared ==
    (TagAsked /\ Done) =>
        /\ ~StatusIs(result, "UpToDate")
        /\ IsErr(result) => result.kind # "SemVer"
        /\ StatusIs(result, "Updated") => result.v.version = served.version

\* C30: with a target version tag configured update() never answers UpToDate
\* and never fails on a version that does not parse; after the tag was found
\* it goes on to asset selection, download and replacement, also when the
\* tagged release is equal to or older than current_version and when
\* current_version is not valid semver
C30_TagSkipsVersionComparison ==
    []TagNeverCompared /\ TagGoesOnToSelect

\* C30 witness: a tagged release older than the running version was installed
C30_Witness ==
    /\ TagAsked
    /\ cfg.current_version.parses /\ served.version.parses
    /\ VerGT(cfg.current_version.num, served.version.num)
    /\ Done /\ StatusIs(result, "Updated")
    /\ Started("select") /\ Sent("download")
    /\ fs["dest"] = "new"

\* a tagged update ran to the end although current_version is not semver
TagInstalledOverBadVersion ==
    /\ TagAsked /\ ~cfg.current_version.parses
    /\ Done /\ StatusIs(result, "Updated")

====
